---- MODULE Spec2Model ----
(***************************************************************************)
(* A model of munbox: the layered decode pipeline for classic Macintosh    *)
(* archive formats (file/memory sources, BinHex, MacBinary, StuffIt,       *)
(* Compact Pro) and the detection driver munbox_process.                   *)
(*                                                                         *)
(* Bytes are naturals 0..255, byte strings are sequences.  A layer is a    *)
(* record holding the fields of its C state struct; the three operations   *)
(* open/read/close of a layer are operators from the state before the call *)
(* to the state after it together with the value returned.                 *)
(***************************************************************************)
EXTENDS Integers, Sequences, FiniteSets, TLC

VARIABLES
    input,      \* index of the input byte stream under the source layer
    src,        \* the source layer (file_layer_state_t / mem_layer_state_t)
    lay,        \* the format layer built over the source (kind "none": absent)
    cl,         \* what the caller of the layer API has observed so far
    drv         \* locals of munbox_process and the callbacks it has issued

vars == <<input, src, lay, cl, drv>>

(***************************************************************************)
(* Return codes and enumerations of munbox.h.                              *)
(***************************************************************************)
MUNBOX_ERROR == -1
MUNBOX_ABORT == -2
MUNBOX_OPEN_FIRST == 0
MUNBOX_OPEN_NEXT == 1
MUNBOX_FORK_DATA == 0
MUNBOX_FORK_RESOURCE == 1

(***************************************************************************)
(* Bounds of the model.                                                    *)
(***************************************************************************)
\* largest buffer length a caller of read() passes in the layer specifications
MaxCnt == 3
\* number of open(FIRST) passes a caller makes over a source layer
MaxPasses == 2

\* bytes a caller reads from the source after a factory declined
MaxRest == 4

(***************************************************************************)
(* Fixed-width arithmetic.                                                 *)
(***************************************************************************)
Min(a, b) == IF a < b THEN a ELSE b

\* Bind(e, LAMBDA x : f) is f with x standing for the value of e, which is
\* computed once
Bind(e, F(_)) == CHOOSE y \in {F(v) : v \in {e}} : TRUE

\* a ^ b and a & b on 16-bit values, bit by bit
BitXor(a, b) ==
      (1 * (((a \div 1) + (b \div 1)) % 2)) + (2 * (((a \div 2) + (b \div 2)) % 2))
    + (4 * (((a \div 4) + (b \div 4)) % 2)) + (8 * (((a \div 8) + (b \div 8)) % 2))
    + (16 * (((a \div 16) + (b \div 16)) % 2)) + (32 * (((a \div 32) + (b \div 32)) % 2))
    + (64 * (((a \div 64) + (b \div 64)) % 2)) + (128 * (((a \div 128) + (b \div 128)) % 2))
    + (256 * (((a \div 256) + (b \div 256)) % 2)) + (512 * (((a \div 512) + (b \div 512)) % 2))
    + (1024 * (((a \div 1024) + (b \div 1024)) % 2)) + (2048 * (((a \div 2048) + (b \div 2048)) % 2))
    + (4096 * (((a \div 4096) + (b \div 4096)) % 2)) + (8192 * (((a \div 8192) + (b \div 8192)) % 2))
    + (16384 * (((a \div 16384) + (b \div 16384)) % 2)) + (32768 * (((a \div 32768) + (b \div 32768)) % 2))

BitAnd(a, b) ==
      (1 * (((a \div 1) % 2) * ((b \div 1) % 2))) + (2 * (((a \div 2) % 2) * ((b \div 2) % 2)))
    + (4 * (((a \div 4) % 2) * ((b \div 4) % 2))) + (8 * (((a \div 8) % 2) * ((b \div 8) % 2)))
    + (16 * (((a \div 16) % 2) * ((b \div 16) % 2))) + (32 * (((a \div 32) % 2) * ((b \div 32) % 2)))
    + (64 * (((a \div 64) % 2) * ((b \div 64) % 2))) + (128 * (((a \div 128) % 2) * ((b \div 128) % 2)))
    + (256 * (((a \div 256) % 2) * ((b \div 256) % 2))) + (512 * (((a \div 512) % 2) * ((b \div 512) % 2)))
    + (1024 * (((a \div 1024) % 2) * ((b \div 1024) % 2))) + (2048 * (((a \div 2048) % 2) * ((b \div 2048) % 2)))
    + (4096 * (((a \div 4096) % 2) * ((b \div 4096) % 2))) + (8192 * (((a \div 8192) % 2) * ((b \div 8192) % 2)))
    + (16384 * (((a \div 16384) % 2) * ((b \div 16384) % 2))) + (32768 * (((a \div 32768) % 2) * ((b \div 32768) % 2)))

U16(x) == x % 65536

\* the part of sequence s from index a+1 on, at most n elements
Slice(s, a, n) == SubSeq(s, a + 1, Min(Len(s), a + n))

(***************************************************************************)
(* munbox_file_info_t, as filled by open().  Names are byte strings.       *)
(***************************************************************************)
FileInfo(name, len, fork, meta) ==
    [filename |-> name, length |-> len, fork_type |-> fork, has_metadata |-> meta]

\* memset(info, 0, sizeof(*info)); fork_type = DATA; has_metadata = false
SourceInfo == FileInfo(<<>>, 0, MUNBOX_FORK_DATA, FALSE)

NoInfo == FileInfo(<<>>, 0, MUNBOX_FORK_DATA, FALSE)

(***************************************************************************)
(* Source layers.  A source layer is                                       *)
(*   kind       "file" or "mem"                                            *)
(*   pos        the stdio file position, or mem_layer_state_t.pos          *)
(*   eof        file_layer_state_t.eof_reached                             *)
(*   opened     the opened flag                                            *)
(*   bad        offset at which the device fails (ferror), -1: never       *)
(*   closed     number of close() calls made on the layer                  *)
(* An operation returns the layer after the call (s), the value returned   *)
(* (n) and, for read, the bytes stored into the caller's buffer (bytes).   *)
(***************************************************************************)
NewSource(kind, bad) ==
    [kind |-> kind, pos |-> 0, eof |-> FALSE, opened |-> FALSE, bad |-> bad, closed |-> 0]

ReadResult(s, n, bytes) == [s |-> s, n |-> n, bytes |-> bytes]
OpenResult(s, rc, info) == [s |-> s, rc |-> rc, info |-> info]

\* results of the operations of a format layer l built over the source s
LayerReadResult(l, s, n, bytes, hang) ==
    [l |-> l, s |-> s, n |-> n, bytes |-> bytes, hang |-> hang]

LayerOpenResult(l, s, rc, info) == [l |-> l, s |-> s, rc |-> rc, info |-> info]

FactoryResult(l, s) == [l |-> l, s |-> s]

file_layer_read(s, data, cnt) ==
    IF ~s.opened THEN ReadResult(s, MUNBOX_ERROR, <<>>)
    ELSE IF s.eof THEN ReadResult(s, 0, <<>>)
    ELSE
        LET limit == IF s.bad >= 0 /\ s.bad < Len(data) THEN s.bad ELSE Len(data)
            avail == IF s.pos < limit THEN limit - s.pos ELSE 0
            bytes_read == Min(cnt, avail)
            ferror == bytes_read < cnt /\ limit < Len(data)
            moved == [s EXCEPT !.pos = s.pos + bytes_read]
        IN  IF bytes_read < cnt
            THEN IF ferror
                 THEN ReadResult(moved, MUNBOX_ERROR, <<>>)
                 ELSE ReadResult([moved EXCEPT !.eof = TRUE], bytes_read,
                                 Slice(data, s.pos, bytes_read))
            ELSE ReadResult(moved, bytes_read, Slice(data, s.pos, bytes_read))

file_layer_open_noseek(s, what) ==
    IF what = MUNBOX_OPEN_FIRST
    THEN OpenResult([s EXCEPT !.eof = FALSE, !.opened = TRUE], 1, SourceInfo)
    ELSE OpenResult(s, 0, NoInfo)

file_layer_open(s, what) ==
    IF what = MUNBOX_OPEN_FIRST
    THEN OpenResult([s EXCEPT !.pos = 0, !.eof = FALSE, !.opened = TRUE], 1, SourceInfo)
    ELSE OpenResult(s, 0, NoInfo)

mem_layer_read(s, data, cnt) ==
    IF ~s.opened THEN ReadResult(s, MUNBOX_ERROR, <<>>)
    ELSE
        LET remaining == Len(data) - s.pos
            bytes_to_read == Min(cnt, remaining)
        IN  ReadResult([s EXCEPT !.pos = s.pos + bytes_to_read], bytes_to_read,
                       Slice(data, s.pos, bytes_to_read))

\* an open that marks the layer opened and leaves pos where it is
mem_layer_open_nopos(s, what) ==
    IF what = MUNBOX_OPEN_FIRST
    THEN OpenResult([s EXCEPT !.opened = TRUE], 1, SourceInfo)
    ELSE OpenResult(s, 0, NoInfo)

mem_layer_open(s, what) ==
    IF what = MUNBOX_OPEN_FIRST
    THEN OpenResult([s EXCEPT !.pos = 0, !.opened = TRUE], 1, SourceInfo)
    ELSE OpenResult(s, 0, NoInfo)

\* file_layer_close / mem_layer_close
source_close(s) == [s EXCEPT !.closed = s.closed + 1]

\* calls through the function pointers of a source layer
src_read(s, data, cnt) ==
    IF s.kind = "file" THEN file_layer_read(s, data, cnt) ELSE mem_layer_read(s, data, cnt)

src_open(s, what) ==
    IF s.kind = "file" THEN file_layer_open(s, what) ELSE mem_layer_open(s, what)

NoLayer == [kind |-> "none"]
NoClient == [op |-> "none"]
NoDriver == [pc |-> "none"]

(***************************************************************************)
(* CRC lookup tables, copied from the source.                               *)
(***************************************************************************)
sit_crc_table ==
    << 0, 49345, 49537, 320, 49921, 960, 640, 49729, 50689, 1728, 1920, 51009, 1280, 50625, 50305, 1088,
       52225, 3264, 3456, 52545, 3840, 53185, 52865, 3648, 2560, 51905, 52097, 2880, 51457, 2496, 2176, 51265,
       55297, 6336, 6528, 55617, 6912, 56257, 55937, 6720, 7680, 57025, 57217, 8000, 56577, 7616, 7296, 56385,
       5120, 54465, 54657, 5440, 55041, 6080, 5760, 54849, 53761, 4800, 4992, 54081, 4352, 53697, 53377, 4160,
       61441, 12480, 12672, 61761, 13056, 62401, 62081, 12864, 13824, 63169, 63361, 14144, 62721, 13760, 13440, 62529,
       15360, 64705, 64897, 15680, 65281, 16320, 16000, 65089, 64001, 15040, 15232, 64321, 14592, 63937, 63617, 14400,
       10240, 59585, 59777, 10560, 60161, 11200, 10880, 59969, 60929, 11968, 12160, 61249, 11520, 60865, 60545, 11328,
       58369, 9408, 9600, 58689, 9984, 59329, 59009, 9792, 8704, 58049, 58241, 9024, 57601, 8640, 8320, 57409,
       40961, 24768, 24960, 41281, 25344, 41921, 41601, 25152, 26112, 42689, 42881, 26432, 42241, 26048, 25728, 42049,
       27648, 44225, 44417, 27968, 44801, 28608, 28288, 44609, 43521, 27328, 27520, 43841, 26880, 43457, 43137, 26688,
       30720, 47297, 47489, 31040, 47873, 31680, 31360, 47681, 48641, 32448, 32640, 48961, 32000, 48577, 48257, 31808,
       46081, 29888, 30080, 46401, 30464, 47041, 46721, 30272, 29184, 45761, 45953, 29504, 45313, 29120, 28800, 45121,
       20480, 37057, 37249, 20800, 37633, 21440, 21120, 37441, 38401, 22208, 22400, 38721, 21760, 38337, 38017, 21568,
       39937, 23744, 23936, 40257, 24320, 40897, 40577, 24128, 23040, 39617, 39809, 23360, 39169, 22976, 22656, 38977,
       34817, 18624, 18816, 35137, 19200, 35777, 35457, 19008, 19968, 36545, 36737, 20288, 36097, 19904, 19584, 35905,
       17408, 33985, 34177, 17728, 34561, 18368, 18048, 34369, 33281, 17088, 17280, 33601, 16640, 33217, 32897, 16448 >>

ccitt_table ==
    << 0, 4129, 8258, 12387, 16516, 20645, 24774, 28903, 33032, 37161, 41290, 45419, 49548, 53677, 57806, 61935,
       4657, 528, 12915, 8786, 21173, 17044, 29431, 25302, 37689, 33560, 45947, 41818, 54205, 50076, 62463, 58334,
       9314, 13379, 1056, 5121, 25830, 29895, 17572, 21637, 42346, 46411, 34088, 38153, 58862, 62927, 50604, 54669,
       13907, 9842, 5649, 1584, 30423, 26358, 22165, 18100, 46939, 42874, 38681, 34616, 63455, 59390, 55197, 51132,
       18628, 22757, 26758, 30887, 2112, 6241, 10242, 14371, 51660, 55789, 59790, 63919, 35144, 39273, 43274, 47403,
       23285, 19156, 31415, 27286, 6769, 2640, 14899, 10770, 56317, 52188, 64447, 60318, 39801, 35672, 47931, 43802,
       27814, 31879, 19684, 23749, 11298, 15363, 3168, 7233, 60846, 64911, 52716, 56781, 44330, 48395, 36200, 40265,
       32407, 28342, 24277, 20212, 15891, 11826, 7761, 3696, 65439, 61374, 57309, 53244, 48923, 44858, 40793, 36728,
       37256, 33193, 45514, 41451, 53516, 49453, 61774, 57711, 4224, 161, 12482, 8419, 20484, 16421, 28742, 24679,
       33721, 37784, 41979, 46042, 49981, 54044, 58239, 62302, 689, 4752, 8947, 13010, 16949, 21012, 25207, 29270,
       46570, 42443, 38312, 34185, 62830, 58703, 54572, 50445, 13538, 9411, 5280, 1153, 29798, 25671, 21540, 17413,
       42971, 47098, 34713, 38840, 59231, 63358, 50973, 55100, 9939, 14066, 1681, 5808, 26199, 30326, 17941, 22068,
       55628, 51565, 63758, 59695, 39368, 35305, 47498, 43435, 22596, 18533, 30726, 26663, 6336, 2273, 14466, 10403,
       52093, 56156, 60223, 64286, 35833, 39896, 43963, 48026, 19061, 23124, 27191, 31254, 2801, 6864, 10931, 14994,
       64814, 60687, 56684, 52557, 48554, 44427, 40424, 36297, 31782, 27655, 23652, 19525, 15522, 11395, 7392, 3265,
       61215, 65342, 53085, 57212, 44955, 49082, 36825, 40952, 28183, 32310, 20053, 24180, 11923, 16050, 3793, 7920 >>

(***************************************************************************)
(* StuffIt classic layer (sit.c).  archive_data is the whole input, read   *)
(* into memory by the factory; offsets below are 0-based into it.  Fork    *)
(* lengths are 32-bit fields; the inputs keep them below 2^31.             *)
(***************************************************************************)
At(data, off) == data[off + 1]

LOAD_BE16(data, off) == (At(data, off) * 256) + At(data, off + 1)

LOAD_BE32(data, off) ==
    (((((At(data, off) * 256) + At(data, off + 1)) * 256) + At(data, off + 2)) * 256)
        + At(data, off + 3)

sit_crc_process(crc, b) ==
    BitXor(sit_crc_table[BitAnd(BitXor(crc, b), 255) + 1], crc \div 256)

\* the while loop of sit_crc_process over bytes[lo..hi], evaluated by halves
RECURSIVE sit_crc_range(_, _, _, _)
sit_crc_range(crc, bytes, lo, hi) ==
    IF lo > hi THEN crc
    ELSE IF lo = hi THEN sit_crc_process(crc, bytes[lo])
    ELSE LET mid == (lo + hi) \div 2
         IN
         Bind(sit_crc_range(crc, bytes, lo, mid), LAMBDA left :
             IF left < 0 THEN left ELSE sit_crc_range(left, bytes, mid + 1, hi))

sit_crc_update(crc, bytes) == sit_crc_range(crc, bytes, 1, Len(bytes))

sit_crc(bytes) == sit_crc_update(0, bytes)

SlashChar == 47

RECURSIVE JoinFolders(_)
JoinFolders(stack) ==
    IF stack = <<>> THEN <<>>
    ELSE Head(stack) \o <<SlashChar>> \o JoinFolders(Tail(stack))

SitForkDesc(ulen, clen, crc, method, off) ==
    [uncomp_len |-> ulen, comp_len |-> clen, crc |-> crc, method |-> method,
     comp_ptr |-> off]

\* sizeof folder_name, the buffer a folder name is copied to with its
\* terminator
FOLDER_NAME_SIZE == 64

\* the depth of folder_stack
FOLDER_STACK_DEPTH == 10

\* one iteration of the header loop of sit_build_index_classic;
\* st = [entries, folders, current, err, smashed].  smashed: the memcpy of a
\* folder name and its terminator wrote beyond folder_name, which is
\* undefined.  No input of LayerSpec or ProcessSpec has such a name.
sit_index_step(data, size, st) ==
    IF st.current + 112 > size THEN [st EXCEPT !.err = TRUE]
    ELSE
        LET header == st.current
            res_method == At(data, header)
            data_method == At(data, header + 1)
            name_len == At(data, header + 2)
            after == header + 112
        IN  IF res_method = 32 \/ data_method = 32
            THEN [st EXCEPT !.current = after,
                            !.smashed = @ \/ name_len + 1 > FOLDER_NAME_SIZE,
                            !.folders = IF Len(st.folders) < FOLDER_STACK_DEPTH
                                        THEN Append(st.folders, Slice(data, header + 3, name_len))
                                        ELSE st.folders]
            ELSE IF res_method = 33 \/ data_method = 33
            THEN [st EXCEPT !.current = after,
                            !.folders = IF Len(st.folders) > 0
                                        THEN SubSeq(st.folders, 1, Len(st.folders) - 1)
                                        ELSE st.folders]
            ELSE IF BitAnd(res_method, 224) # 0 \/ BitAnd(data_method, 224) # 0
            THEN [st EXCEPT !.current = after]
            ELSE
                LET filename == Slice(data, header + 3, Min(name_len, 127))
                    rsrc_len == LOAD_BE32(data, header + 84)
                    data_len == LOAD_BE32(data, header + 88)
                    rsrc_comp_len == LOAD_BE32(data, header + 92)
                    data_comp_len == LOAD_BE32(data, header + 96)
                    comp_rsrc == after
                    comp_data == comp_rsrc + rsrc_comp_len
                IN  IF comp_rsrc + rsrc_comp_len > size \/ comp_data + data_comp_len > size
                    THEN [st EXCEPT !.err = TRUE]
                    ELSE [st EXCEPT
                                !.current = comp_data + data_comp_len,
                                !.entries = Append(st.entries,
                                    [path |-> JoinFolders(st.folders) \o filename,
                                     rsrc |-> SitForkDesc(rsrc_len, rsrc_comp_len,
                                                 LOAD_BE16(data, header + 100),
                                                 BitAnd(res_method, 15), comp_rsrc),
                                     data |-> SitForkDesc(data_len, data_comp_len,
                                                 LOAD_BE16(data, header + 102),
                                                 BitAnd(data_method, 15), comp_data)])]

\* the header loop: numFiles iterations, left at the first error
RECURSIVE sit_index_loop(_, _, _, _)
sit_index_loop(data, size, i, st) ==
    IF i = 0 \/ st.err THEN st
    ELSE sit_index_loop(data, size, i - 1, sit_index_step(data, size, st))

\* sit_build_index_classic: rc < 0 on a malformed archive; the entries
\* indexed before the failure stay in the state
sit_build_index_classic(data, size) ==
    IF size < 22
    THEN [rc |-> MUNBOX_ERROR, built |-> FALSE, entries |-> <<>>]
    ELSE Bind(sit_index_loop(data, size, LOAD_BE16(data, 4),
                  [entries |-> <<>>, folders |-> <<>>, current |-> 22, err |-> FALSE,
                   smashed |-> FALSE]), LAMBDA st :
             [rc |-> IF st.err THEN MUNBOX_ERROR ELSE 0, built |-> TRUE,
              entries |-> st.entries])

STRM_NONE == 0
STRM_COPY == 1
STRM_RLE90 == 2
STRM_SIT15 == 3
STRM_LZW == 4
STRM_SIT13 == 5

NoStream ==
    [kind |-> STRM_NONE, src |-> 0, src_len |-> 0, src_pos |-> 0, out_rem |-> 0,
     skip_crc |-> FALSE, crc_accum |-> 0, last_byte |-> 0, rep_rem |-> 0]

FillResult(ss, n, bytes, hang) == [ss |-> ss, n |-> n, bytes |-> bytes, hang |-> hang]

\* STRM_COPY arm of sit_stream_fill.  When the compressed bytes run out
\* while out_rem > 0 and the buffer is not full, every further iteration
\* copies 0 bytes and the loop never exits: hang.
sit_fill_copy(ss, data, cap) ==
    LET n == Min(Min(ss.src_len - ss.src_pos, ss.out_rem), cap)
        bytes == Slice(data, ss.src + ss.src_pos, n)
    IN
    Bind([ss EXCEPT !.src_pos = ss.src_pos + n, !.out_rem = ss.out_rem - n,
                    !.crc_accum = IF ss.skip_crc THEN ss.crc_accum
                                  ELSE sit_crc_update(ss.crc_accum, bytes)], LAMBDA ss2 :
        FillResult(ss2, n, bytes, n < cap /\ ss2.out_rem > 0))

\* STRM_RLE90 arm of sit_stream_fill, one loop iteration per call
RECURSIVE sit_fill_rle90(_, _, _, _)
sit_fill_rle90(ss, data, cap, out) ==
    IF ~(Len(out) < cap /\ ss.out_rem > 0) THEN FillResult(ss, Len(out), out, FALSE)
    ELSE IF ss.rep_rem > 0
    THEN sit_fill_rle90(
            [ss EXCEPT !.rep_rem = ss.rep_rem - 1, !.out_rem = ss.out_rem - 1,
                       !.crc_accum = IF ss.skip_crc THEN ss.crc_accum
                                     ELSE sit_crc_process(ss.crc_accum, ss.last_byte)],
            data, cap, Append(out, ss.last_byte))
    ELSE IF ss.src_pos >= ss.src_len THEN FillResult(ss, Len(out), out, FALSE)
    ELSE
        LET b == At(data, ss.src + ss.src_pos)
            s1 == [ss EXCEPT !.src_pos = ss.src_pos + 1]
        IN  IF b = 144
            THEN IF s1.src_pos >= s1.src_len THEN FillResult(s1, Len(out), out, FALSE)
                 ELSE LET n == At(data, s1.src + s1.src_pos)
                          s2 == [s1 EXCEPT !.src_pos = s1.src_pos + 1]
                      IN  IF n = 0
                          THEN sit_fill_rle90(
                                  [s2 EXCEPT !.out_rem = s2.out_rem - 1,
                                             !.crc_accum = IF s2.skip_crc THEN s2.crc_accum
                                                           ELSE sit_crc_process(s2.crc_accum, 144)],
                                  data, cap, Append(out, 144))
                          ELSE IF n > 1
                          THEN sit_fill_rle90([s2 EXCEPT !.rep_rem = n - 1], data, cap, out)
                          ELSE sit_fill_rle90(s2, data, cap, out)
            ELSE sit_fill_rle90(
                    [s1 EXCEPT !.last_byte = b, !.out_rem = s1.out_rem - 1,
                               !.crc_accum = IF s1.skip_crc THEN s1.crc_accum
                                             ELSE sit_crc_process(s1.crc_accum, b)],
                    data, cap, Append(out, b))

\* a sit_stream_fill that does not carry the count of a run from one call
\* to the next
sit_stream_fill_no_carry(ss, data, cap) ==
    IF ss.out_rem = 0 THEN FillResult(ss, 0, <<>>, FALSE)
    ELSE IF ss.kind = STRM_COPY THEN sit_fill_copy(ss, data, cap)
    ELSE IF ss.kind = STRM_RLE90
    THEN sit_fill_rle90([ss EXCEPT !.rep_rem = 0], data, cap, <<>>)
    ELSE FillResult(ss, MUNBOX_ERROR, <<>>, FALSE)

\* sit_stream_fill for the stream kinds the inputs use (stored and RLE90
\* forks); any other kind value takes the final error arm
sit_stream_fill(ss, data, cap) ==
    IF ss.out_rem = 0 THEN FillResult(ss, 0, <<>>, FALSE)
    ELSE IF ss.kind = STRM_COPY THEN sit_fill_copy(ss, data, cap)
    ELSE IF ss.kind = STRM_RLE90 THEN sit_fill_rle90(ss, data, cap, <<>>)
    ELSE FillResult(ss, MUNBOX_ERROR, <<>>, FALSE)


sit_layer_read(l, s, data, cnt) ==
    IF ~l.opened THEN LayerReadResult(l, s, MUNBOX_ERROR, <<>>, FALSE)
    ELSE Bind(sit_stream_fill(l.stream, data, cnt), LAMBDA f :
         LET l2 == [l EXCEPT !.stream = f.ss]
         IN  IF f.hang THEN LayerReadResult(l2, s, 0, <<>>, TRUE)
             ELSE IF f.ss.out_rem = 0 /\ ~f.ss.skip_crc /\ f.ss.crc_accum # l.expected_crc
             THEN LayerReadResult(l2, s, MUNBOX_ERROR, <<>>, FALSE)
             ELSE LayerReadResult(l2, s, f.n, IF f.n > 0 THEN f.bytes ELSE <<>>, FALSE))

\* a fork skipper that skips nothing, so that sit_layer_open reports the empty forks as well
sit_skip_none(entries, ie, fk) == [iter_entry |-> ie, iter_fork |-> fk]

\* the "skip empty forks" loop of sit_layer_open
RECURSIVE sit_skip_empty(_, _, _)
sit_skip_empty(entries, ie, fk) ==
    IF ie >= Len(entries) THEN [iter_entry |-> ie, iter_fork |-> fk]
    ELSE IF fk = 0 /\ entries[ie + 1].data.uncomp_len = 0 THEN sit_skip_empty(entries, ie, 1)
    ELSE IF fk = 1 /\ entries[ie + 1].rsrc.uncomp_len = 0 THEN sit_skip_empty(entries, ie + 1, 0)
    ELSE [iter_entry |-> ie, iter_fork |-> fk]

\* sit_layer_open after the index exists: position the iterator and set up
\* the stream of the fork it lands on
sit_open_iter(l, s, what) ==
    LET l1 == [l EXCEPT !.opened = TRUE]
        n == Len(l.entries)
    IN  IF what # MUNBOX_OPEN_FIRST /\ l.iter_entry >= n
        THEN LayerOpenResult(l1, s, 0, NoInfo)
        ELSE
            LET adv == IF what = MUNBOX_OPEN_FIRST THEN [iter_entry |-> 0, iter_fork |-> 0]
                       ELSE IF l.iter_fork = 0 /\ l.entries[l.iter_entry + 1].rsrc.uncomp_len > 0
                       THEN [iter_entry |-> l.iter_entry, iter_fork |-> 1]
                       ELSE [iter_entry |-> l.iter_entry + 1, iter_fork |-> 0]
            IN
            Bind(sit_skip_empty(l.entries, adv.iter_entry, adv.iter_fork), LAMBDA it :
            LET l2 == [l1 EXCEPT !.iter_entry = it.iter_entry, !.iter_fork = it.iter_fork]
            IN  IF it.iter_entry >= n THEN LayerOpenResult(l2, s, 0, NoInfo)
                ELSE
                    LET e == l.entries[it.iter_entry + 1]
                        fd == IF it.iter_fork = 0 THEN e.data ELSE e.rsrc
                        kind == CASE fd.method = 0 -> STRM_COPY
                                  [] fd.method = 1 -> STRM_RLE90
                                  [] fd.method = 2 -> STRM_LZW
                                  [] fd.method = 13 -> STRM_SIT13
                                  [] fd.method = 15 -> STRM_SIT15
                                  [] OTHER -> l.stream.kind
                        l3 == [l2 EXCEPT
                                  !.stream = [kind |-> kind, src |-> fd.comp_ptr,
                                              src_len |-> fd.comp_len, src_pos |-> 0,
                                              out_rem |-> fd.uncomp_len,
                                              skip_crc |-> (fd.method = 15),
                                              crc_accum |-> 0, last_byte |-> 0, rep_rem |-> 0],
                                  !.expected_crc = fd.crc]
                    IN  IF fd.method \notin {0, 1, 2, 13, 15}
                        THEN LayerOpenResult(l3, s, MUNBOX_ERROR, NoInfo)
                        ELSE LayerOpenResult(l3, s, 1,
                                 FileInfo(e.path, fd.uncomp_len,
                                          IF it.iter_fork = 0 THEN MUNBOX_FORK_DATA
                                          ELSE MUNBOX_FORK_RESOURCE, TRUE)))

sit_layer_open(l, s, data, what) ==
    IF ~l.built
    THEN Bind(sit_build_index_classic(data, l.archive_size), LAMBDA r :
         LET l1 == [l EXCEPT !.built = r.built, !.entries = r.entries]
         IN  IF r.rc < 0 THEN LayerOpenResult(l1, s, r.rc, NoInfo)
             ELSE IF Len(r.entries) = 0 THEN LayerOpenResult(l1, s, 0, NoInfo)
             ELSE sit_open_iter([l1 EXCEPT !.has_read = TRUE], s, what))
    ELSE sit_open_iter(l, s, what)

\* sit_layer_close: closes the source it owns, then frees itself
sit_layer_close(l, s) == [l |-> [l EXCEPT !.closed = l.closed + 1], s |-> source_close(s)]

\* the 14-byte header read loop of munbox_new_sit_layer
RECURSIVE sit_read_hdr14(_, _, _, _)
sit_read_hdr14(s, data, hdr, want) ==
    IF Len(hdr) >= want THEN [s |-> s, hdr |-> hdr]
    ELSE Bind(src_read(s, data, want - Len(hdr)), LAMBDA r :
             IF r.n <= 0 THEN [s |-> r.s, hdr |-> hdr]
             ELSE sit_read_hdr14(r.s, data, hdr \o r.bytes, want))

\* the "read until EOF" loop of munbox_new_sit_layer with its doubling buffer
RECURSIVE sit_read_all(_, _, _, _)
sit_read_all(s, data, pos, cap) ==
    Bind(src_read(s, data, cap - pos), LAMBDA r :
        IF r.n < 0 THEN [s |-> r.s, ok |-> FALSE, size |-> pos]
        ELSE IF r.n = 0 THEN [s |-> r.s, ok |-> TRUE, size |-> pos]
        ELSE sit_read_all(r.s, data, pos + r.n, IF pos + r.n = cap THEN cap * 2 ELSE cap))

classic_magic ==
    { <<83, 73, 84, 33>>, <<83, 84, 52, 54>>, <<83, 84, 53, 48>>, <<83, 84, 54, 48>>,
      <<83, 84, 54, 53>>, <<83, 84, 105, 110>>, <<83, 84, 105, 50>>, <<83, 84, 105, 51>>,
      <<83, 84, 105, 52>> }

rLau == <<114, 76, 97, 117>>


\* munbox_new_sit_layer over a source layer: the source's open(FIRST)
\* returns 1 with length 0, so 14 bytes are wanted; its open(NEXT) returns 0
munbox_new_sit_layer(s, data) ==
    Bind(src_open(s, MUNBOX_OPEN_FIRST), LAMBDA o :
    Bind(sit_read_hdr14(o.s, data, <<>>, 14), LAMBDA h :
    LET found_classic_sit == /\ Len(h.hdr) >= 14
                             /\ SubSeq(h.hdr, 1, 4) \in classic_magic
                             /\ SubSeq(h.hdr, 11, 14) = rLau
    IN  IF ~found_classic_sit
        THEN FactoryResult(NoLayer, src_open(h.s, MUNBOX_OPEN_NEXT).s)
        ELSE Bind(sit_read_all(h.s, data, Len(h.hdr), Len(h.hdr) * 2), LAMBDA a :
                 IF ~a.ok THEN FactoryResult(NoLayer, a.s)
                 ELSE FactoryResult(
                         [kind |-> "sit", has_read |-> FALSE, has_open |-> TRUE,
                          archive_size |-> a.size, built |-> FALSE, entries |-> <<>>,
                          opened |-> FALSE, iter_entry |-> 0, iter_fork |-> 0,
                          stream |-> NoStream, expected_crc |-> 0, closed |-> 0],
                         a.s))))

(***************************************************************************)
(* BinHex layer (hqx.c).  The layer reads its source one byte at a time.   *)
(***************************************************************************)
hqx_encode ==
    << 33, 34, 35, 36, 37, 38, 39, 40, 41, 42, 43, 44, 45, 48, 49, 50,
       51, 52, 53, 54, 56, 57, 64, 65, 66, 67, 68, 69, 70, 71, 72, 73,
       74, 75, 76, 77, 78, 80, 81, 82, 83, 84, 85, 86, 88, 89, 90, 91,
       96, 97, 98, 99, 100, 101, 102, 104, 105, 106, 107, 108, 109, 112, 113, 114 >>

decode_table ==
    << 255, 255, 255, 255, 255, 255, 255, 255, 255, 255, 255, 255, 255, 255, 255, 255,
       255, 255, 255, 255, 255, 255, 255, 255, 255, 255, 255, 255, 255, 255, 255, 255,
       255, 0, 1, 2, 3, 4, 5, 6, 7, 8, 9, 10, 11, 12, 255, 255,
       13, 14, 15, 16, 17, 18, 19, 255, 20, 21, 255, 255, 255, 255, 255, 255,
       22, 23, 24, 25, 26, 27, 28, 29, 30, 31, 32, 33, 34, 35, 36, 255,
       37, 38, 39, 40, 41, 42, 43, 255, 44, 45, 46, 47, 255, 255, 255, 255,
       48, 49, 50, 51, 52, 53, 54, 255, 55, 56, 57, 58, 59, 60, 255, 255,
       61, 62, 63, 255, 255, 255, 255, 255, 255, 255, 255, 255, 255, 255, 255, 255,
       255, 255, 255, 255, 255, 255, 255, 255, 255, 255, 255, 255, 255, 255, 255, 255,
       255, 255, 255, 255, 255, 255, 255, 255, 255, 255, 255, 255, 255, 255, 255, 255,
       255, 255, 255, 255, 255, 255, 255, 255, 255, 255, 255, 255, 255, 255, 255, 255,
       255, 255, 255, 255, 255, 255, 255, 255, 255, 255, 255, 255, 255, 255, 255, 255,
       255, 255, 255, 255, 255, 255, 255, 255, 255, 255, 255, 255, 255, 255, 255, 255,
       255, 255, 255, 255, 255, 255, 255, 255, 255, 255, 255, 255, 255, 255, 255, 255,
       255, 255, 255, 255, 255, 255, 255, 255, 255, 255, 255, 255, 255, 255, 255, 255,
       255, 255, 255, 255, 255, 255, 255, 255, 255, 255, 255, 255, 255, 255, 255, 255 >>

BINHEX_SIGNATURE ==
    << 40, 84, 104, 105, 115, 32, 102, 105, 108, 101, 32, 109, 117, 115, 116, 32,
       98, 101, 32, 99, 111, 110, 118, 101, 114, 116, 101, 100, 32, 119, 105, 116,
       104, 32, 66, 105, 110, 72, 101, 120 >>

EOF == -1

HQX_STATE_HEADER == 0
HQX_STATE_DATA == 1
HQX_STATE_RSRC == 2
HQX_STATE_DONE == 3
HQX_STATE_ERROR == 4

isspace(c) == c \in {9, 10, 11, 12, 13, 32}

crc16_ccitt_update(crc, b) ==
    BitXor(U16(crc * 256), ccitt_table[BitXor(crc \div 256, b) + 1])

RECURSIVE get_next_encoded_char(_, _)
get_next_encoded_char(s, data) ==
    Bind(src_read(s, data, 1), LAMBDA r :
        IF r.n # 1 THEN [s |-> r.s, c |-> EOF]
        ELSE IF isspace(r.bytes[1]) THEN get_next_encoded_char(r.s, data)
        ELSE IF r.bytes[1] = 58 THEN [s |-> r.s, c |-> EOF]
        ELSE [s |-> r.s, c |-> r.bytes[1]])

DecodeResult(st, s, byte) == [st |-> st, s |-> s, byte |-> byte]

\* the symbol loop of decode_one_byte
RECURSIVE decode_symbols(_, _, _)
decode_symbols(st, s, data) ==
    Bind(get_next_encoded_char(s, data), LAMBDA g :
        IF g.c = EOF THEN DecodeResult(st, g.s, MUNBOX_ERROR)
        ELSE
            LET current_symbol == decode_table[g.c + 1]
            IN  IF current_symbol > 63 THEN DecodeResult(st, g.s, MUNBOX_ERROR)
                ELSE IF st.seq = 0
                THEN decode_symbols([st EXCEPT !.last_symbol = current_symbol, !.seq = 1],
                                    g.s, data)
                ELSE
                    LET next_byte ==
                            CASE st.seq = 1 ->
                                    ((st.last_symbol * 4) % 256) + (current_symbol \div 16)
                              [] st.seq = 2 ->
                                    ((st.last_symbol % 16) * 16) + (current_symbol \div 4)
                              [] st.seq = 3 ->
                                    ((st.last_symbol % 4) * 64) + current_symbol
                        st1 == [st EXCEPT !.seq = (st.seq + 1) % 4,
                                          !.last_symbol = IF st.seq = 3 THEN @
                                                          ELSE current_symbol]
                    IN  IF st1.rle_active
                        THEN LET st2 == [st1 EXCEPT !.rle_active = FALSE]
                             IN  IF next_byte = 0 THEN DecodeResult(st2, g.s, 144)
                                 ELSE IF next_byte > 1
                                 THEN DecodeResult([st2 EXCEPT !.rle_count = next_byte - 2],
                                                   g.s, st2.last_output_byte)
                                 ELSE DecodeResult(st2, g.s, MUNBOX_ERROR)
                        ELSE IF next_byte = 144
                        THEN decode_symbols([st1 EXCEPT !.rle_active = TRUE], g.s, data)
                        ELSE DecodeResult(st1, g.s, next_byte))

decode_one_byte(st, s, data) ==
    IF st.rle_count > 0
    THEN DecodeResult([st EXCEPT !.rle_count = st.rle_count - 1], s, st.last_output_byte)
    ELSE decode_symbols(st, s, data)

\* the two decode_one_byte calls that read a fork's CRC and the update with
\* them; which = "data_crc" or "rsrc_crc"
hqx_read_crc(st, s, data, which) ==
    Bind(decode_one_byte(st, s, data), LAMBDA d1 :
        IF d1.byte < 0 THEN [st |-> d1.st, s |-> d1.s, ok |-> FALSE]
        ELSE Bind(decode_one_byte(d1.st, d1.s, data), LAMBDA d2 :
                 IF d2.byte < 0 THEN [st |-> d2.st, s |-> d2.s, ok |-> FALSE]
                 ELSE Bind(crc16_ccitt_update(
                               crc16_ccitt_update(st[which], d1.byte), d2.byte), LAMBDA crc :
                          [st |-> [d2.st EXCEPT ![which] = crc], s |-> d2.s, ok |-> crc = 0])))

\* the byte loop of hqx_layer_read
RECURSIVE hqx_read_loop(_, _, _, _, _)
hqx_read_loop(st, s, data, cnt, out) ==
    IF Len(out) >= cnt THEN LayerReadResult(st, s, Len(out), out, FALSE)
    ELSE IF st.stream_state = HQX_STATE_DATA
    THEN IF st.data_rem = 0
         THEN Bind(hqx_read_crc(st, s, data, "data_crc"), LAMBDA c :
                  IF ~c.ok THEN LayerReadResult(c.st, c.s, MUNBOX_ERROR, <<>>, FALSE)
                  ELSE IF c.st.iterating
                  THEN LayerReadResult([c.st EXCEPT !.stream_state = HQX_STATE_DONE],
                                       c.s, Len(out), out, FALSE)
                  ELSE hqx_read_loop([c.st EXCEPT !.stream_state = HQX_STATE_RSRC],
                                     c.s, data, cnt, out))
         ELSE Bind(decode_one_byte(st, s, data), LAMBDA d :
                  IF d.byte < 0
                  THEN LayerReadResult([d.st EXCEPT !.stream_state = HQX_STATE_ERROR],
                                       d.s, MUNBOX_ERROR, <<>>, FALSE)
                  ELSE hqx_read_loop(
                          [d.st EXCEPT !.last_output_byte = d.byte,
                                       !.data_crc = crc16_ccitt_update(@, d.byte),
                                       !.data_rem = @ - 1],
                          d.s, data, cnt, Append(out, d.byte)))
    ELSE IF st.stream_state = HQX_STATE_RSRC
    THEN IF st.rsrc_rem = 0
         THEN IF st.rsrc_crc # 0
              THEN Bind(hqx_read_crc(st, s, data, "rsrc_crc"), LAMBDA c :
                       IF ~c.ok THEN LayerReadResult(c.st, c.s, MUNBOX_ERROR, <<>>, FALSE)
                       ELSE LayerReadResult([c.st EXCEPT !.stream_state = HQX_STATE_DONE],
                                            c.s, Len(out), out, FALSE))
              ELSE LayerReadResult([st EXCEPT !.stream_state = HQX_STATE_DONE],
                                   s, Len(out), out, FALSE)
         ELSE Bind(decode_one_byte(st, s, data), LAMBDA d :
                  IF d.byte < 0
                  THEN LayerReadResult([d.st EXCEPT !.stream_state = HQX_STATE_ERROR],
                                       d.s, MUNBOX_ERROR, <<>>, FALSE)
                  ELSE hqx_read_loop(
                          [d.st EXCEPT !.last_output_byte = d.byte,
                                       !.rsrc_crc = crc16_ccitt_update(@, d.byte),
                                       !.rsrc_rem = @ - 1],
                          d.s, data, cnt, Append(out, d.byte)))
    ELSE LayerReadResult([st EXCEPT !.stream_state = HQX_STATE_DONE], s, Len(out), out, FALSE)

hqx_layer_read(st, s, data, cnt) ==
    IF ~st.opened THEN LayerReadResult(st, s, MUNBOX_ERROR, <<>>, FALSE)
    ELSE IF st.stream_state = HQX_STATE_ERROR THEN LayerReadResult(st, s, MUNBOX_ERROR, <<>>, FALSE)
    ELSE IF st.stream_state = HQX_STATE_DONE \/ cnt = 0 THEN LayerReadResult(st, s, 0, <<>>, FALSE)
    ELSE hqx_read_loop(st, s, data, cnt, <<>>)

\* a close that releases the decoder state and leaves the wrapped input open
hqx_layer_close_keeps_input(st, s) == [l |-> [st EXCEPT !.closed = st.closed + 1], s |-> s]

hqx_layer_close(st, s) == [l |-> [st EXCEPT !.closed = st.closed + 1], s |-> source_close(s)]

\* the loop of hqx_layer_open(NEXT) that consumes what is left of the data fork
RECURSIVE hqx_drain_data(_, _, _)
hqx_drain_data(st, s, data) ==
    IF st.data_rem = 0 THEN [st |-> st, s |-> s, ok |-> TRUE]
    ELSE Bind(decode_one_byte(st, s, data), LAMBDA d :
             IF d.byte < 0 THEN [st |-> d.st, s |-> d.s, ok |-> FALSE]
             ELSE hqx_drain_data([d.st EXCEPT !.last_output_byte = d.byte,
                                              !.data_crc = crc16_ccitt_update(@, d.byte),
                                              !.data_rem = @ - 1],
                                 d.s, data))

hqx_layer_open(st0, s, data, what) ==
    LET st == [st0 EXCEPT !.iterating = TRUE, !.opened = TRUE]
        rsrc_info == FileInfo(st.filename, st.rsrc_rem, MUNBOX_FORK_RESOURCE, TRUE)
    IN  IF what = MUNBOX_OPEN_FIRST
        THEN IF st.stream_state # HQX_STATE_DATA /\ st.stream_state # HQX_STATE_RSRC
             THEN LayerOpenResult(st, s, MUNBOX_ERROR, NoInfo)
             ELSE IF st.data_rem > 0
             THEN LayerOpenResult(st, s, 1,
                      FileInfo(st.filename, st.data_rem, MUNBOX_FORK_DATA, TRUE))
             ELSE IF st.rsrc_rem > 0
             THEN LayerOpenResult([st EXCEPT !.stream_state = HQX_STATE_RSRC], s, 1, rsrc_info)
             ELSE LayerOpenResult(st, s, 0, NoInfo)
        ELSE IF st.stream_state = HQX_STATE_DATA /\ st.rsrc_rem > 0
        THEN Bind(hqx_drain_data(st, s, data), LAMBDA dr :
                 IF ~dr.ok THEN LayerOpenResult(dr.st, dr.s, MUNBOX_ERROR, NoInfo)
                 ELSE Bind(hqx_read_crc(dr.st, dr.s, data, "data_crc"), LAMBDA c :
                          IF ~c.ok THEN LayerOpenResult(c.st, c.s, MUNBOX_ERROR, NoInfo)
                          ELSE LayerOpenResult([c.st EXCEPT !.stream_state = HQX_STATE_RSRC],
                                               c.s, 1, rsrc_info)))
        ELSE IF st.stream_state = HQX_STATE_DONE /\ st.rsrc_rem > 0
        THEN LayerOpenResult([st EXCEPT !.stream_state = HQX_STATE_RSRC], s, 1, rsrc_info)
        ELSE LayerOpenResult(st, s, 0, NoInfo)

\* strstr(hay, needle) # NULL on byte strings
StrStr(hay, needle) ==
    \E i \in 0..(Len(hay) - Len(needle)) : SubSeq(hay, i + 1, i + Len(needle)) = needle

\* a buffer read as a C string: the bytes before the first NUL
CString(buf) ==
    LET nul == {i \in 1..Len(buf) : buf[i] = 0}
    IN  IF nul = {} THEN buf
        ELSE SubSeq(buf, 1, (CHOOSE i \in nul : \A j \in nul : i <= j) - 1)

\* step 4 of munbox_new_hqx_layer: read bytes up to and including the first ':'
\* (at most n passes of the loop, the remaining passes split in halves;
\* stop says that the loop has left)
RECURSIVE hqx_find_colon_run(_, _, _)
hqx_find_colon_run(s, data, n) ==
    IF n <= 1
    THEN Bind(src_read(s, data, 1), LAMBDA r :
             [s |-> r.s, found |-> r.n = 1 /\ r.bytes[1] = 58,
              stop |-> r.n # 1 \/ r.bytes[1] = 58])
    ELSE Bind(hqx_find_colon_run(s, data, n \div 2), LAMBDA m :
             IF m.stop THEN m ELSE hqx_find_colon_run(m.s, data, n - (n \div 2)))

hqx_find_colon(s, data) == hqx_find_colon_run(s, data, Len(data) + 1)

\* step 5 of munbox_new_hqx_layer: decode the header bytes after name_len,
\* the trailing CRC included; hdr collects header_buf
\* (the todo passes of the loop are split in halves)
RECURSIVE hqx_read_header(_, _, _, _, _)
hqx_read_header(st, s, data, todo, hdr) ==
    IF todo = 0 THEN [st |-> st, s |-> s, ok |-> TRUE, hdr |-> hdr]
    ELSE IF todo = 1
    THEN Bind(decode_one_byte(st, s, data), LAMBDA d :
             IF d.byte < 0 THEN [st |-> d.st, s |-> d.s, ok |-> FALSE, hdr |-> hdr]
             ELSE [st |-> [d.st EXCEPT !.last_output_byte = d.byte,
                                       !.header_crc = crc16_ccitt_update(@, d.byte)],
                   s |-> d.s, ok |-> TRUE, hdr |-> Append(hdr, d.byte)])
    ELSE Bind(hqx_read_header(st, s, data, todo \div 2, hdr), LAMBDA m :
             IF ~m.ok THEN m
             ELSE hqx_read_header(m.st, m.s, data, todo - (todo \div 2), m.hdr))

NewHqxState ==
    [kind |-> "hqx", has_read |-> TRUE, has_open |-> TRUE,
     seq |-> 0, rle_active |-> FALSE, last_symbol |-> 0, last_output_byte |-> 0,
     rle_count |-> 0, stream_state |-> HQX_STATE_HEADER,
     header_crc |-> 0, data_crc |-> 0, rsrc_crc |-> 0, data_rem |-> 0, rsrc_rem |-> 0,
     filename |-> <<>>, iterating |-> FALSE, opened |-> FALSE, closed |-> 0]

munbox_new_hqx_layer(s, data) ==
    Bind(src_open(s, MUNBOX_OPEN_FIRST), LAMBDA o1 :
    Bind(src_read(o1.s, data, 256), LAMBDA p :
    Bind(/\ p.n >= Len(BINHEX_SIGNATURE)
         /\ StrStr(CString(SubSeq(p.bytes, 1, Min(p.n, 255))), BINHEX_SIGNATURE), LAMBDA recognized :
    Bind(src_open(p.s, MUNBOX_OPEN_FIRST), LAMBDA o2 :
        IF ~recognized THEN FactoryResult(NoLayer, o2.s)
        ELSE
            Bind(hqx_find_colon(o2.s, data), LAMBDA fc :
                IF ~fc.found THEN FactoryResult(NoLayer, fc.s)
                ELSE
                    Bind(decode_one_byte(NewHqxState, fc.s, data), LAMBDA d :
                        IF d.byte < 0 THEN FactoryResult(NoLayer, d.s)
                        ELSE
                            LET name_len == d.byte
                            IN
                            Bind(hqx_read_header(
                                    [d.st EXCEPT !.last_output_byte = name_len,
                                                 !.header_crc = crc16_ccitt_update(0, name_len)],
                                    d.s, data, name_len + 19 + 2, <<name_len>>), LAMBDA h :
                                IF ~h.ok \/ h.st.header_crc # 0 THEN FactoryResult(NoLayer, h.s)
                                ELSE
                                    LET data_rem == LOAD_BE32(h.hdr, 1 + name_len + 11)
                                        rsrc_rem == LOAD_BE32(h.hdr, 1 + name_len + 15)
                                    IN  FactoryResult(
                                            [h.st EXCEPT
                                                !.filename = Slice(h.hdr, 1, name_len),
                                                !.data_rem = data_rem,
                                                !.rsrc_rem = rsrc_rem,
                                                !.stream_state = IF data_rem = 0
                                                                 THEN HQX_STATE_RSRC
                                                                 ELSE HQX_STATE_DATA],
                                            h.s))))))))

(***************************************************************************)
(* MacBinary layer (bin.c).                                                *)
(***************************************************************************)
MB_BLOCK_SIZE == 128

SIT5_MAGIC_HEAD ==
    << 83, 116, 117, 102, 102, 73, 116, 32, 40, 99, 41, 49, 57, 57, 55, 45 >>

SIT5_MAGIC_TAIL ==
    << 32, 65, 108, 97, 100, 100, 105, 110, 32, 83, 121, 115, 116, 101, 109, 115,
       44, 32, 73, 110, 99, 46, 44, 32, 104, 116, 116, 112, 58, 47, 47, 119,
       119, 119, 46, 97, 108, 97, 100, 100, 105, 110, 115, 121, 115, 46, 99, 111,
       109, 47, 83, 116, 117, 102, 102, 73, 116, 47 >>

looks_like_sit(buf) ==
    \/ /\ Len(buf) >= 80
       /\ SubSeq(buf, 1, 16) = SIT5_MAGIC_HEAD
       /\ SubSeq(buf, 21, 78) = SIT5_MAGIC_TAIL
    \/ /\ Len(buf) >= 14
       /\ SubSeq(buf, 1, 4) \in classic_magic
       /\ SubSeq(buf, 11, 14) = rLau

\* the while loop of crc16_xmodem_update over bytes[lo..hi], evaluated by
\* halves: first the left half, then the right half from its result
RECURSIVE crc16_xmodem_range(_, _, _, _)
crc16_xmodem_range(crc, bytes, lo, hi) ==
    IF lo > hi THEN crc
    ELSE IF lo = hi
    THEN BitXor(U16(crc * 256), ccitt_table[BitXor(crc \div 256, bytes[lo]) + 1])
    ELSE LET mid == (lo + hi) \div 2
         IN
         Bind(crc16_xmodem_range(crc, bytes, lo, mid), LAMBDA left :
             IF left < 0 THEN left ELSE crc16_xmodem_range(left, bytes, mid + 1, hi))

crc16_xmodem_update(crc, bytes) == crc16_xmodem_range(crc, bytes, 1, Len(bytes))

RECURSIVE read_fully(_, _, _, _)
read_fully(s, data, n, buf) ==
    IF Len(buf) >= n THEN [s |-> s, ok |-> TRUE, buf |-> buf]
    ELSE Bind(src_read(s, data, n - Len(buf)), LAMBDA r :
             IF r.n <= 0 THEN [s |-> r.s, ok |-> FALSE, buf |-> buf]
             ELSE read_fully(r.s, data, n, buf \o r.bytes))

\* skip_bytes that leaves the stream where it is
skip_none(s, data, n) == [s |-> s, ok |-> TRUE]

RECURSIVE skip_bytes(_, _, _)
skip_bytes(s, data, n) ==
    IF n = 0 THEN [s |-> s, ok |-> TRUE]
    ELSE Bind(src_read(s, data, Min(n, 256)), LAMBDA r :
             IF r.n <= 0 THEN [s |-> r.s, ok |-> FALSE]
             ELSE skip_bytes(r.s, data, n - r.n))

be16(hdr, off) == LOAD_BE16(hdr, off)

be32(hdr, off) == LOAD_BE32(hdr, off)

BlockPad(n) == (MB_BLOCK_SIZE - (n % MB_BLOCK_SIZE)) % MB_BLOCK_SIZE

\* skip the secondary header announced at hdr[120] and its padding
bin_skip_secondary(s, data, hdr) ==
    LET sec_len == be16(hdr, 120)
    IN  IF sec_len = 0 THEN [s |-> s, ok |-> TRUE]
        ELSE Bind(skip_bytes(s, data, sec_len), LAMBDA k :
                 IF ~k.ok THEN k
                 ELSE skip_bytes(k.s, data, BlockPad(sec_len)))

\* the header checks without the test of byte 82
bin_header_valid_any_crc(hdr) ==
    /\ hdr[1] = 0
    /\ hdr[75] = 0
    /\ hdr[2] # 0 /\ hdr[2] <= 63

\* the header checks shared by the factory and the rewind of open(FIRST)
bin_header_valid(hdr) ==
    /\ hdr[1] = 0
    /\ hdr[75] = 0
    /\ hdr[2] # 0 /\ hdr[2] <= 63
    /\ crc16_xmodem_update(0, SubSeq(hdr, 1, 124)) = be16(hdr, 124) \/ hdr[83] = 0

\* read the sniff buffer of the data fork, rewind, and consume the header and
\* the secondary header again
bin_sniff_and_reposition(s, data, data_total) ==
    Bind(IF data_total > 0 THEN src_read(s, data, 128)
         ELSE ReadResult(s, 0, <<>>), LAMBDA sn :
    Bind(src_open(sn.s, MUNBOX_OPEN_FIRST), LAMBDA o :
    Bind(read_fully(o.s, data, MB_BLOCK_SIZE, <<>>), LAMBDA h :
        IF ~h.ok THEN [s |-> h.s, ok |-> FALSE, data_is_sit |-> FALSE]
        ELSE Bind(bin_skip_secondary(h.s, data, h.buf), LAMBDA k :
                 [s |-> k.s, ok |-> k.ok,
                  data_is_sit |-> sn.n > 0 /\ looks_like_sit(sn.bytes)]))))

bin_layer_read(st, s, data, cnt) ==
    IF st.error THEN LayerReadResult(st, s, MUNBOX_ERROR, <<>>, FALSE)
    ELSE IF ~st.opened THEN LayerReadResult(st, s, MUNBOX_ERROR, <<>>, FALSE)
    ELSE IF cnt = 0 THEN LayerReadResult(st, s, 0, <<>>, FALSE)
    ELSE
        LET legacy == ~st.iterating /\ ~st.started_read /\ st.streaming_rsrc
        IN
        Bind(IF legacy THEN skip_bytes(s, data, st.data_total) ELSE [s |-> s, ok |-> TRUE], LAMBDA k1 :
        Bind(IF legacy /\ k1.ok THEN skip_bytes(k1.s, data, BlockPad(st.data_total))
             ELSE k1, LAMBDA k2 :
            IF ~k2.ok THEN LayerReadResult(st, k2.s, MUNBOX_ERROR, <<>>, FALSE)
            ELSE
                LET st1 == [st EXCEPT !.data_rem = IF legacy THEN st.rsrc_len ELSE @,
                                      !.started_read = TRUE]
                IN  IF st1.data_rem = 0 THEN LayerReadResult(st1, k2.s, 0, <<>>, FALSE)
                    ELSE Bind(src_read(k2.s, data, Min(st1.data_rem, cnt)), LAMBDA r :
                             IF r.n < 0 THEN LayerReadResult(st1, r.s, r.n, <<>>, FALSE)
                             ELSE LayerReadResult(
                                     [st1 EXCEPT !.data_rem = @ - r.n,
                                                 !.ever_read = @ \/ r.n > 0],
                                     r.s, r.n, r.bytes, FALSE))))

bin_layer_close(st, s) == [l |-> [st EXCEPT !.closed = st.closed + 1], s |-> source_close(s)]

\* the "rewind & reparse" block of bin_layer_open(FIRST); ok = FALSE is one
\* of its error returns
bin_rewind(st, s, data) ==
    Bind(src_open(s, MUNBOX_OPEN_FIRST), LAMBDA o :
    Bind(read_fully(o.s, data, MB_BLOCK_SIZE, <<>>), LAMBDA h :
        IF ~h.ok THEN [st |-> st, s |-> h.s, ok |-> FALSE]
        ELSE IF ~bin_header_valid(h.buf) THEN [st |-> st, s |-> h.s, ok |-> FALSE]
        ELSE
            Bind(bin_skip_secondary(h.s, data, h.buf), LAMBDA k :
                IF ~k.ok THEN [st |-> st, s |-> k.s, ok |-> FALSE]
                ELSE
                    LET st1 == [st EXCEPT !.filename = Slice(h.buf, 2, h.buf[2]),
                                          !.data_total = be32(h.buf, 83),
                                          !.data_rem = be32(h.buf, 83),
                                          !.rsrc_len = be32(h.buf, 87),
                                          !.streaming_rsrc = FALSE,
                                          !.started_read = FALSE,
                                          !.opened = FALSE,
                                          !.iterating = FALSE]
                    IN
                    Bind(bin_sniff_and_reposition(k.s, data, st1.data_total), LAMBDA p :
                        IF ~p.ok THEN [st |-> st1, s |-> p.s, ok |-> FALSE]
                        ELSE [st |-> [st1 EXCEPT
                                         !.streaming_rsrc = ~p.data_is_sit /\ st1.rsrc_len > 0,
                                         !.ever_read = FALSE],
                              s |-> p.s, ok |-> TRUE]))))

bin_layer_open(st0, s0, data, what) ==
    IF what = MUNBOX_OPEN_FIRST
    THEN Bind(IF st0.ever_read THEN bin_rewind(st0, s0, data)
              ELSE [st |-> st0, s |-> s0, ok |-> TRUE], LAMBDA rw :
             IF ~rw.ok THEN LayerOpenResult(rw.st, rw.s, MUNBOX_ERROR, NoInfo)
             ELSE
                 LET st == [rw.st EXCEPT !.iterating = TRUE, !.started_read = FALSE,
                                         !.opened = TRUE,
                                         !.data_rem = IF ~rw.st.streaming_rsrc
                                                      THEN rw.st.data_total ELSE @]
                 IN  IF st.data_total > 0
                     THEN LayerOpenResult(
                             [st EXCEPT !.streaming_rsrc = FALSE, !.data_rem = st.data_total],
                             rw.s, 1,
                             FileInfo(st.filename, st.data_total, MUNBOX_FORK_DATA, TRUE))
                     ELSE IF st.rsrc_len > 0
                     THEN LayerOpenResult(
                             [st EXCEPT !.streaming_rsrc = TRUE, !.data_rem = st.rsrc_len],
                             rw.s, 1,
                             FileInfo(st.filename, st.rsrc_len, MUNBOX_FORK_RESOURCE, TRUE))
                     ELSE LayerOpenResult(st, rw.s, 0, NoInfo))
    ELSE IF ~st0.iterating THEN LayerOpenResult(st0, s0, MUNBOX_ERROR, NoInfo)
    ELSE IF ~st0.streaming_rsrc /\ st0.rsrc_len > 0
    THEN LET remaining == st0.data_rem
         IN
         Bind(skip_bytes(s0, data, remaining), LAMBDA k1 :
         LET pad == BlockPad(st0.data_total)
         IN  IF ~k1.ok THEN LayerOpenResult(st0, k1.s, MUNBOX_ERROR, NoInfo)
             ELSE
                 LET st1 == [st0 EXCEPT !.ever_read = @ \/ remaining > 0]
                 IN
                 Bind(skip_bytes(k1.s, data, pad), LAMBDA k2 :
                     IF ~k2.ok THEN LayerOpenResult(st1, k2.s, MUNBOX_ERROR, NoInfo)
                     ELSE LayerOpenResult(
                             [st1 EXCEPT !.ever_read = @ \/ pad > 0,
                                         !.streaming_rsrc = TRUE,
                                         !.data_rem = st1.rsrc_len,
                                         !.started_read = FALSE],
                             k2.s, 1,
                             FileInfo(st1.filename, st1.rsrc_len, MUNBOX_FORK_RESOURCE, TRUE))))
    ELSE LayerOpenResult(st0, s0, 0, NoInfo)

munbox_new_bin_layer(s, data) ==
    Bind(src_open(s, MUNBOX_OPEN_FIRST), LAMBDA o1 :
    Bind(read_fully(o1.s, data, MB_BLOCK_SIZE, <<>>), LAMBDA probe :
    Bind(src_open(probe.s, MUNBOX_OPEN_FIRST), LAMBDA o2 :
        IF ~probe.ok THEN FactoryResult(NoLayer, o2.s)
        ELSE IF ~bin_header_valid(probe.buf) THEN FactoryResult(NoLayer, o2.s)
        ELSE IF probe.buf[84] >= 128 \/ probe.buf[88] >= 128 THEN FactoryResult(NoLayer, o2.s)
        ELSE
            Bind(read_fully(o2.s, data, MB_BLOCK_SIZE, <<>>), LAMBDA h :
                IF ~h.ok THEN FactoryResult(NoLayer, h.s)
                ELSE
                    Bind(bin_skip_secondary(h.s, data, h.buf), LAMBDA k :
                        IF ~k.ok THEN FactoryResult(NoLayer, k.s)
                        ELSE
                            LET data_len == be32(h.buf, 83)
                                rsrc_len == be32(h.buf, 87)
                            IN
                            Bind(bin_sniff_and_reposition(k.s, data, data_len), LAMBDA p :
                                IF ~p.ok THEN FactoryResult(NoLayer, p.s)
                                ELSE FactoryResult(
                                        [kind |-> "bin", has_read |-> TRUE, has_open |-> TRUE,
                                         filename |-> Slice(h.buf, 2, h.buf[2]),
                                         data_rem |-> data_len, rsrc_len |-> rsrc_len,
                                         error |-> FALSE,
                                         streaming_rsrc |-> ~p.data_is_sit /\ rsrc_len > 0,
                                         iterating |-> FALSE, started_read |-> FALSE,
                                         opened |-> FALSE, data_total |-> data_len,
                                         ever_read |-> FALSE, closed |-> 0],
                                        p.s)))))))

(***************************************************************************)
(* Compact Pro layer (cpt.c).  As for StuffIt, archive_data is the whole   *)
(* input.  Forks are read through the raw byte supplier and the RLE stage. *)
(***************************************************************************)
CPT_MAGIC_BYTE == 1
CPT_VOLUME_SINGLE == 1
CPT_FLAG_ENCRYPTED == 1
CPT_FLAG_RSRC_LZH == 2
CPT_FLAG_DATA_LZH == 4
CPT_ENTRY_DIR_FLAG == 128

cpt_probe_header(s, data) ==
    Bind(src_open(s, MUNBOX_OPEN_FIRST), LAMBDA o1 :
    Bind(src_read(o1.s, data, 8), LAMBDA r :
    Bind(src_open(r.s, MUNBOX_OPEN_FIRST), LAMBDA o2 :
        IF r.n < 0 THEN [s |-> r.s, rc |-> r.n]
        ELSE IF r.n < 8 THEN [s |-> o2.s, rc |-> 0]
        ELSE IF r.bytes[1] # CPT_MAGIC_BYTE \/ r.bytes[2] # CPT_VOLUME_SINGLE
        THEN [s |-> o2.s, rc |-> 0]
        ELSE IF r.bytes[5] > 16 \/ (r.bytes[5] = 16 /\ LOAD_BE32(r.bytes, 4) > 268435456)
                \/ LOAD_BE32(r.bytes, 4) < 8
        THEN [s |-> o2.s, rc |-> 0]
        ELSE [s |-> o2.s, rc |-> 1])))

\* a uint32_t held as its two 16-bit halves: the offset and the compressed
\* lengths of an entry, whose sums can pass 2^32
U32(hi, lo) == [hi |-> hi, lo |-> lo]

LOAD_BE32_U32(data, off) == U32(LOAD_BE16(data, off), LOAD_BE16(data, off + 2))

\* a + b in uint32_t
u32_add(a, b) ==
    U32((a.hi + b.hi + ((a.lo + b.lo) \div 65536)) % 65536, (a.lo + b.lo) % 65536)

\* (size_t)a + b > size, with a size_t of 64 bits and size below 2^16
size_sum_exceeds(a, b, size) == a.hi # 0 \/ b.hi # 0 \/ a.lo + b.lo > size

cpt_build_path(parent, name) ==
    IF parent # <<>> THEN parent \o <<SlashChar>> \o name ELSE name

\* cpt_walk_dir_mem; w = [ok, cursor, entries]
RECURSIVE cpt_walk_dir_mem(_, _, _, _, _)
cpt_walk_dir_mem(data, size, n, parent, w) ==
    IF n <= 0 \/ ~w.ok THEN w
    ELSE IF w.cursor >= size THEN [w EXCEPT !.ok = FALSE]
    ELSE
        LET nlentype == At(data, w.cursor)
            name_len == nlentype % 128
            is_dir == nlentype >= CPT_ENTRY_DIR_FLAG
            cur == w.cursor + 1 + name_len
        IN  IF cur > size THEN [w EXCEPT !.ok = FALSE]
            ELSE
                Bind(cpt_build_path(parent, Slice(data, w.cursor + 1, name_len)), LAMBDA fullpath :
                    IF is_dir
                    THEN IF cur + 2 > size THEN [w EXCEPT !.ok = FALSE]
                         ELSE LET child_count == LOAD_BE16(data, cur)
                              IN
                              Bind(cpt_walk_dir_mem(data, size, child_count, fullpath,
                                                    [w EXCEPT !.cursor = cur + 2]), LAMBDA sub :
                                  cpt_walk_dir_mem(data, size, n - (child_count + 1), parent, sub))
                    ELSE IF cur + 45 > size THEN [w EXCEPT !.ok = FALSE]
                    ELSE cpt_walk_dir_mem(data, size, n - 1, parent,
                            [w EXCEPT
                                !.cursor = cur + 45,
                                !.entries = Append(w.entries,
                                    [name |-> fullpath,
                                     file_offset |-> LOAD_BE32_U32(data, cur + 1),
                                     flags |-> LOAD_BE16(data, cur + 27),
                                     rsrc_uncomp_len |-> LOAD_BE32(data, cur + 29),
                                     data_uncomp_len |-> LOAD_BE32(data, cur + 33),
                                     rsrc_comp_len |-> LOAD_BE32_U32(data, cur + 37),
                                     data_comp_len |-> LOAD_BE32_U32(data, cur + 41)])]))

cpt_parse_directory_mem(data, size, dir_offset) ==
    IF dir_offset + 7 > size THEN [ok |-> FALSE, cursor |-> 0, entries |-> <<>>]
    ELSE LET total_entries == LOAD_BE16(data, dir_offset + 4)
             cursor == dir_offset + 7 + At(data, dir_offset + 6)
         IN  IF cursor > size THEN [ok |-> FALSE, cursor |-> cursor, entries |-> <<>>]
             ELSE cpt_walk_dir_mem(data, size, total_entries, <<>>,
                                   [ok |-> TRUE, cursor |-> cursor, entries |-> <<>>])

\* cpt_rle_stream_read over the memory supplier cpt_mem_next; fs holds the
\* supplier window (pos, end) and the RLE state (repeat, saved, half)
RECURSIVE cpt_rle_stream_read(_, _, _, _)
cpt_rle_stream_read(fs, data, outlen, out) ==
    IF Len(out) >= outlen THEN [fs |-> fs, out |-> out]
    ELSE IF fs.repeat # 0
    THEN cpt_rle_stream_read([fs EXCEPT !.repeat = @ - 1], data, outlen, Append(out, fs.saved))
    ELSE IF ~fs.half /\ fs.pos >= fs.end THEN [fs |-> fs, out |-> out]
    ELSE
        LET byte == IF fs.half THEN 129 ELSE At(data, fs.pos)
            f1 == IF fs.half THEN [fs EXCEPT !.half = FALSE] ELSE [fs EXCEPT !.pos = @ + 1]
        IN  IF byte # 129
            THEN cpt_rle_stream_read([f1 EXCEPT !.saved = byte], data, outlen, Append(out, byte))
            ELSE IF f1.pos >= f1.end THEN [fs |-> f1, out |-> out]
            ELSE
                LET b2 == At(data, f1.pos)
                    f2 == [f1 EXCEPT !.pos = @ + 1]
                IN  IF b2 = 130
                    THEN IF f2.pos >= f2.end THEN [fs |-> f2, out |-> out]
                         ELSE LET n == At(data, f2.pos)
                                  f3 == [f2 EXCEPT !.pos = @ + 1]
                              IN  IF n # 0
                                  THEN cpt_rle_stream_read([f3 EXCEPT !.repeat = n - 2],
                                           data, outlen, Append(out, f3.saved))
                                  ELSE cpt_rle_stream_read(
                                           [f3 EXCEPT !.saved = 130, !.repeat = 1],
                                           data, outlen, Append(out, 129))
                    ELSE IF b2 = 129
                    THEN cpt_rle_stream_read([f2 EXCEPT !.half = TRUE, !.saved = 129],
                                             data, outlen, Append(out, 129))
                    ELSE cpt_rle_stream_read([f2 EXCEPT !.saved = b2, !.repeat = 1],
                                             data, outlen, Append(out, 129))

cpt_fork_stream_read(fs, data, max_out) ==
    IF fs.finished \/ fs.out_remaining = 0 THEN [fs |-> fs, out |-> <<>>]
    ELSE Bind(cpt_rle_stream_read(fs, data, Min(max_out, fs.out_remaining), <<>>), LAMBDA r :
         LET rem == fs.out_remaining - Len(r.out)
         IN  [fs |-> [r.fs EXCEPT !.out_remaining = rem,
                                  !.finished = Len(r.out) = 0 \/ rem = 0],
              out |-> r.out])

cpt_layer_read(st, s, data, cnt) ==
    IF ~st.opened THEN LayerReadResult(st, s, MUNBOX_ERROR, <<>>, FALSE)
    ELSE IF ~st.has_reader THEN LayerReadResult(st, s, 0, <<>>, FALSE)
    ELSE Bind(cpt_fork_stream_read(st.fork, data, cnt), LAMBDA r :
             LayerReadResult([st EXCEPT !.fork = r.fs], s, Len(r.out), r.out, FALSE))

\* a fork skipper that skips nothing, so that cpt_layer_open lands on the empty
\* data fork of an entry
cpt_skip_none(entries, ie, fk) == [iter_entry |-> ie, iter_fork |-> fk]

\* the "skip empty forks" loop of cpt_layer_open
RECURSIVE cpt_skip_empty(_, _, _)
cpt_skip_empty(entries, ie, fk) ==
    IF ie >= Len(entries) THEN [iter_entry |-> ie, iter_fork |-> fk]
    ELSE IF fk = 0 /\ entries[ie + 1].data_uncomp_len = 0 THEN cpt_skip_empty(entries, ie, 1)
    ELSE IF fk = 1 /\ entries[ie + 1].rsrc_uncomp_len = 0 THEN cpt_skip_empty(entries, ie + 1, 0)
    ELSE [iter_entry |-> ie, iter_fork |-> fk]

NoForkStream ==
    [pos |-> 0, end |-> 0, repeat |-> 0, saved |-> 0, half |-> FALSE,
     out_remaining |-> 0, finished |-> TRUE, use_lzh |-> FALSE]

cpt_layer_open(st0, s, data, what) ==
    IF Len(st0.entries) = 0 THEN LayerOpenResult(st0, s, 0, NoInfo)
    ELSE
        LET st == [st0 EXCEPT !.opened = TRUE]
            n == Len(st.entries)
        IN  IF what # MUNBOX_OPEN_FIRST /\ st.iter_index >= n
            THEN LayerOpenResult(st, s, 0, NoInfo)
            ELSE
                LET adv == IF what = MUNBOX_OPEN_FIRST THEN [iter_entry |-> 0, iter_fork |-> 0]
                           ELSE IF st.iter_fork = 0
                                   /\ st.entries[st.iter_index + 1].rsrc_uncomp_len > 0
                           THEN [iter_entry |-> st.iter_index, iter_fork |-> 1]
                           ELSE [iter_entry |-> st.iter_index + 1, iter_fork |-> 0]
                IN
                Bind(cpt_skip_empty(st.entries, adv.iter_entry, adv.iter_fork), LAMBDA it :
                LET st1 == [st EXCEPT !.iter_index = it.iter_entry, !.iter_fork = it.iter_fork]
                IN  IF it.iter_entry >= n THEN LayerOpenResult(st1, s, 0, NoInfo)
                    ELSE
                        LET e == st.entries[it.iter_entry + 1]
                            is_data == it.iter_fork = 0
                            uncomp_len == IF is_data THEN e.data_uncomp_len ELSE e.rsrc_uncomp_len
                            comp_len == IF is_data THEN e.data_comp_len ELSE e.rsrc_comp_len
                            comp_off == u32_add(e.file_offset,
                                                IF is_data THEN e.rsrc_comp_len ELSE U32(0, 0))
                            use_lzh == BitAnd(e.flags, IF is_data THEN CPT_FLAG_DATA_LZH
                                                       ELSE CPT_FLAG_RSRC_LZH) # 0
                            st2 == [st1 EXCEPT !.has_reader = FALSE, !.fork = NoForkStream]
                        IN  IF size_sum_exceeds(comp_off, comp_len, st.archive_size)
                            THEN LayerOpenResult(st2, s, MUNBOX_ERROR, NoInfo)
                            ELSE LayerOpenResult(
                                    [st2 EXCEPT
                                        !.has_reader = TRUE,
                                        !.fork = [pos |-> comp_off.lo,
                                                  end |-> comp_off.lo + comp_len.lo,
                                                  repeat |-> 0, saved |-> 0, half |-> FALSE,
                                                  out_remaining |-> uncomp_len,
                                                  finished |-> FALSE, use_lzh |-> use_lzh],
                                        !.has_read = TRUE],
                                    s, 1,
                                    FileInfo(e.name, uncomp_len,
                                             IF is_data THEN MUNBOX_FORK_DATA
                                             ELSE MUNBOX_FORK_RESOURCE, TRUE)))

cpt_layer_close(st, s) == [l |-> [st EXCEPT !.closed = st.closed + 1], s |-> source_close(s)]

\* the read-everything loop of munbox_new_cpt_layer (64 KiB chunks)
RECURSIVE cpt_read_all(_, _, _)
cpt_read_all(s, data, size) ==
    Bind(src_read(s, data, 65536), LAMBDA r :
        IF r.n > 0 THEN cpt_read_all(r.s, data, size + r.n)
        ELSE [s |-> r.s, ok |-> r.n = 0, size |-> size])

munbox_new_cpt_layer(s, data) ==
    Bind(cpt_probe_header(s, data), LAMBDA p :
        IF p.rc <= 0 THEN FactoryResult(NoLayer, p.s)
        ELSE
            Bind(cpt_read_all(src_open(p.s, MUNBOX_OPEN_FIRST).s, data, 0), LAMBDA a :
                IF ~a.ok \/ a.size < 8 THEN FactoryResult(NoLayer, a.s)
                ELSE
                    Bind(cpt_parse_directory_mem(data, a.size, LOAD_BE32(data, 4)), LAMBDA dir :
                        IF ~dir.ok THEN FactoryResult(NoLayer, a.s)
                        ELSE FactoryResult(
                                [kind |-> "cpt", has_read |-> FALSE, has_open |-> TRUE,
                                 archive_size |-> a.size, entries |-> dir.entries,
                                 opened |-> FALSE, iter_index |-> 0, iter_fork |-> 0,
                                 has_reader |-> FALSE, fork |-> NoForkStream, closed |-> 0],
                                a.s))))

(***************************************************************************)
(* Input byte streams.  Archives are laid out field by field at the        *)
(* offsets the parsers read them from.                                     *)
(***************************************************************************)
Zeros(n) == [i \in 1..n |-> 0]

BE16(n) == <<n \div 256, n % 256>>

BE32(n) == <<n \div 16777216, (n \div 65536) % 256, (n \div 256) % 256, n % 256>>

RECURSIVE Flatten(_)
Flatten(ss) ==
    IF Len(ss) = 0 THEN <<>>
    ELSE IF Len(ss) = 1 THEN ss[1]
    ELSE Flatten(SubSeq(ss, 1, Len(ss) \div 2))
             \o Flatten(SubSeq(ss, (Len(ss) \div 2) + 1, Len(ss)))

\* a 112-byte classic entry header followed by the stored resource and data
\* fork bytes (offsets as read by sit_build_index_classic)
SitEntryBytes(e) ==
    <<e.rmeth, e.dmeth, Len(e.name)>> \o e.name \o Zeros(63 - Len(e.name))
        \o Zeros(18)
        \o BE32(e.rlen) \o BE32(e.dlen) \o BE32(Len(e.rcomp)) \o BE32(Len(e.dcomp))
        \o BE16(e.rcrc) \o BE16(e.dcrc) \o Zeros(8)
        \o e.rcomp \o e.dcomp

\* the 22-byte classic archive header and the entries after it
SitArchiveBytes(numFiles, entries) ==
    Bind(Flatten([i \in 1..Len(entries) |-> SitEntryBytes(entries[i])]), LAMBDA body :
        <<83, 73, 84, 33>> \o BE16(numFiles) \o BE32(22 + Len(body)) \o rLau
            \o <<1>> \o Zeros(7) \o body)

\* a file entry whose forks are stored as given, with the CRC of the plain
\* fork bytes
SitFile(name, dmeth, dplain, dcomp, rmeth, rplain, rcomp) ==
    [name |-> name, rmeth |-> rmeth, dmeth |-> dmeth,
     rlen |-> Len(rplain), dlen |-> Len(dplain), rcomp |-> rcomp, dcomp |-> dcomp,
     rcrc |-> sit_crc(rplain), dcrc |-> sit_crc(dplain)]

SitMarker(method, name) ==
    [name |-> name, rmeth |-> method, dmeth |-> method, rlen |-> 0, dlen |-> 0,
     rcomp |-> <<>>, dcomp |-> <<>>, rcrc |-> 0, dcrc |-> 0]

SitEntrySets ==
    << \* 1: one stored data fork
       << SitFile(<<97>>, 0, <<65, 66, 67>>, <<65, 66, 67>>, 0, <<>>, <<>>) >>,
       \* 2: stored data + RLE90 resource fork; then a file with only a resource fork
       << SitFile(<<97>>, 0, <<65, 66>>, <<65, 66>>, 1, <<65, 65, 65, 144>>, <<65, 144, 3, 144, 0>>),
          SitFile(<<98>>, 0, <<>>, <<>>, 0, <<82>>, <<82>>) >>,
       \* 3: RLE90 data fork of 5 bytes whose compressed bytes stop after the first
       << SitFile(<<97>>, 1, <<65, 65, 65, 65, 65>>, <<65>>, 0, <<>>, <<>>) >>,
       \* 4: stored data fork with a wrong CRC
       << [SitFile(<<97>>, 0, <<65, 66>>, <<65, 66>>, 0, <<>>, <<>>) EXCEPT !.dcrc = 4660] >>,
       \* 5: stored data fork shorter than its declared length
       << SitFile(<<97>>, 0, <<65, 66, 67, 68>>, <<65, 66>>, 0, <<>>, <<>>) >>,
       \* 6: a folder holding one file, then a file with no forks, then a file
       << SitMarker(32, <<100>>),
          SitFile(<<97>>, 0, <<65>>, <<65>>, 0, <<>>, <<>>),
          SitMarker(33, <<>>),
          SitFile(<<101>>, 0, <<>>, <<>>, 0, <<>>, <<>>),
          SitFile(<<98>>, 1, <<66, 66, 66>>, <<66, 144, 3>>, 0, <<67>>, <<67>>) >>,
       \* 7: a fork with an unsupported method, then a normal file
       << SitFile(<<97>>, 5, <<65>>, <<65>>, 0, <<>>, <<>>),
          SitFile(<<98>>, 0, <<66>>, <<66>>, 0, <<>>, <<>>) >>,
       \* 8: no entries
       << >> >>

\* what an archive holds: per fork its type, its length and the offset in
\* the input just past its stored bytes
Fork(type, len, past) == [fork_type |-> type, length |-> len, past |-> past]

RECURSIVE SitForks(_, _)
SitForks(entries, off) ==
    IF entries = <<>> THEN <<>>
    ELSE LET e == Head(entries)
             r_end == off + 112 + Len(e.rcomp)
             d_end == r_end + Len(e.dcomp)
         IN  (IF e.dmeth < 32 /\ e.dlen > 0 THEN <<Fork(MUNBOX_FORK_DATA, e.dlen, d_end)>>
              ELSE <<>>)
             \o (IF e.rmeth < 32 /\ e.rlen > 0
                 THEN <<Fork(MUNBOX_FORK_RESOURCE, e.rlen, r_end)>> ELSE <<>>)
             \o SitForks(Tail(entries), d_end)

Input(bytes, forks) == [bytes |-> bytes, forks |-> forks]

SitInputs == [i \in 1..Len(SitEntrySets) |->
                 Input(SitArchiveBytes(Len(SitEntrySets[i]), SitEntrySets[i]),
                       SitForks(SitEntrySets[i], 22))]

\* --- BinHex ---
HqxCrc(bytes) == BE16(crc16_xmodem_update(0, bytes))

HqxHeader(name, dlen, rlen) ==
    <<Len(name)>> \o name \o <<0>> \o <<84, 69, 88, 84>> \o <<116, 116, 120, 116>>
        \o <<0, 0>> \o BE32(dlen) \o BE32(rlen)

\* the RLE90 stage of an encoder: a literal 0x90 is written as 0x90 0x00
HqxEscape(bytes) ==
    Flatten([i \in 1..Len(bytes) |-> IF bytes[i] = 144 THEN <<144, 0>> ELSE <<bytes[i]>>])

\* three bytes to four 6-bit symbols, written in the BinHex alphabet: symbol
\* number j holds bits 6j .. 6j+5 of the byte stream, zero bits after its end
HqxSymbol(b, j) ==
    LET i == (6 * j) \div 8
        shift == 10 - ((6 * j) % 8)
        w == (b[i + 1] * 256) + (IF i + 2 <= Len(b) THEN b[i + 2] ELSE 0)
    IN  (w \div (2 ^ shift)) % 64

HqxText(b) ==
    [k \in 1..(((8 * Len(b)) + 5) \div 6) |-> hqx_encode[HqxSymbol(b, k - 1) + 1]]

HqxPrefix == BINHEX_SIGNATURE \o <<32, 52, 46, 48, 41, 10, 58>>

\* a BinHex file around the RLE-coded, not yet 6-bit-coded, byte stream raw
HqxFileRaw(raw) == HqxPrefix \o HqxText(raw) \o <<58>>

\* offset in the file just past the symbol that completes raw byte number n
HqxPast(n) == Len(HqxPrefix) + (((n * 8) + 5) \div 6)

HqxStream(name, data, rsrc) ==
    Bind(HqxHeader(name, Len(data), Len(rsrc)), LAMBDA h :
        HqxEscape(h \o HqxCrc(h) \o data \o HqxCrc(data)
                  \o rsrc \o (IF rsrc = <<>> THEN <<>> ELSE HqxCrc(rsrc))))

HqxForks(name, data, rsrc) ==
    Bind(HqxHeader(name, Len(data), Len(rsrc)), LAMBDA h :
    Bind(Len(HqxEscape(h \o HqxCrc(h) \o data \o HqxCrc(data))), LAMBDA d_end :
    Bind(Len(HqxStream(name, data, rsrc)), LAMBDA r_end :
        (IF data # <<>> THEN <<Fork(MUNBOX_FORK_DATA, Len(data), HqxPast(d_end))>> ELSE <<>>)
        \o (IF rsrc # <<>> THEN <<Fork(MUNBOX_FORK_RESOURCE, Len(rsrc), HqxPast(r_end))>>
            ELSE <<>>))))

\* a BinHex input keeps, beside the file, the stream that was coded into it
HqxRawInput(raw, forks) == [bytes |-> HqxFileRaw(raw), forks |-> forks, raw |-> raw]

HqxInput(name, data, rsrc) ==
    HqxRawInput(HqxStream(name, data, rsrc), HqxForks(name, data, rsrc))

HqxInputs ==
    << \* data and resource fork
       HqxInput(<<97>>, <<65, 66, 67>>, <<82, 144>>),
       \* data fork only
       HqxInput(<<98>>, <<65, 66>>, <<>>),
       \* resource fork only
       HqxInput(<<99>>, <<>>, <<82, 83>>),
       \* no forks
       HqxInput(<<100>>, <<>>, <<>>),
       \* the signature line with nothing after it
       Input(BINHEX_SIGNATURE \o <<32, 52, 46, 48, 41, 10>>, <<>>),
       \* a header whose CRC does not match
       HqxRawInput(HqxHeader(<<97>>, 1, 0) \o <<18, 52>> \o <<65>> \o HqxCrc(<<65>>), <<>>),
       \* a data fork whose CRC does not match, with a resource fork after it
       HqxRawInput(Bind(HqxHeader(<<97>>, 2, 1), LAMBDA h :
                       h \o HqxCrc(h) \o <<65, 66>> \o <<18, 52>> \o <<82>> \o HqxCrc(<<82>>)),
             <<Fork(MUNBOX_FORK_DATA, 2, 0), Fork(MUNBOX_FORK_RESOURCE, 1, 0)>>),
       \* a data fork of 4 bytes of which the file holds 2
       HqxRawInput(Bind(HqxHeader(<<97>>, 4, 0), LAMBDA h : h \o HqxCrc(h) \o <<65, 66>>),
             <<Fork(MUNBOX_FORK_DATA, 4, 0)>>),
       \* a run: 4 times 'A' written as A 0x90 0x04
       HqxRawInput(Bind(HqxHeader(<<97>>, 4, 0), LAMBDA h :
                       h \o HqxCrc(h) \o <<65, 144, 4>> \o HqxCrc(<<65, 65, 65, 65>>)),
             <<Fork(MUNBOX_FORK_DATA, 4, HqxPast(29))>>) >>

\* a data fork "AB" whose stored CRC does not match, and no resource fork
HqxWrongDataCrc ==
    HqxRawInput(Bind(HqxHeader(<<97>>, 2, 0), LAMBDA h :
                    h \o HqxCrc(h) \o <<65, 66>> \o <<18, 52>>),
          <<Fork(MUNBOX_FORK_DATA, 2, 0)>>)

\* a data fork "A", then a resource fork of one zero byte whose stored CRC
\* does not match
HqxWrongRsrcCrc ==
    HqxRawInput(Bind(HqxHeader(<<97>>, 1, 1), LAMBDA h :
                    h \o HqxCrc(h) \o <<65>> \o HqxCrc(<<65>>) \o <<0>> \o <<18, 52>>),
          <<Fork(MUNBOX_FORK_DATA, 1, HqxPast(26)), Fork(MUNBOX_FORK_RESOURCE, 1, 0)>>)

\* a data fork "A" with CRC 0x58 0xE5, then a resource fork 0xE5 0xE5 written
\* as a run that continues the low byte of that CRC
HqxRunAfterCrc ==
    HqxRawInput(Bind(HqxHeader(<<97>>, 1, 2), LAMBDA h :
                    h \o HqxCrc(h) \o <<65>> \o HqxCrc(<<65>>) \o <<144, 3>>
                      \o HqxCrc(<<229, 229>>)),
          <<Fork(MUNBOX_FORK_DATA, 1, HqxPast(26)), Fork(MUNBOX_FORK_RESOURCE, 2, HqxPast(30))>>)

\* a data fork with a run of count 1
HqxRunOfOne ==
    HqxRawInput(Bind(HqxHeader(<<97>>, 2, 0), LAMBDA h :
                    h \o HqxCrc(h) \o <<65, 144, 1>> \o HqxCrc(<<65, 65>>)),
          <<Fork(MUNBOX_FORK_DATA, 2, 0)>>)

\* a data fork of three bytes 0x90: a literal 0x90, then a run of it
HqxRunOfMarker ==
    HqxRawInput(Bind(HqxHeader(<<97>>, 3, 0), LAMBDA h :
                    h \o HqxCrc(h) \o <<144, 0, 144, 3>> \o HqxCrc(<<144, 144, 144>>)),
          <<Fork(MUNBOX_FORK_DATA, 3, HqxPast(29))>>)

\* --- MacBinary ---
\* the 128-byte header; b82 is byte 82, crc_ok says whether bytes 124..125
\* hold the CRC of bytes 0..123
BinHeader(name, dlen, rlen, sec_len, b82, crc_ok) ==
    Bind(<<0, Len(name)>> \o name \o Zeros(63 - Len(name))
             \o <<84, 69, 88, 84>> \o <<116, 116, 120, 116>> \o <<0, 0>>
             \o Zeros(7) \o <<b82>> \o BE32(dlen) \o BE32(rlen) \o Zeros(29)
             \o BE16(sec_len) \o <<129, 129>>, LAMBDA h124 :
    Bind(crc16_xmodem_update(0, h124), LAMBDA crc :
        h124 \o BE16(IF crc_ok THEN crc ELSE (crc + 1) % 65536) \o <<0, 0>>))

Padded(bytes) == bytes \o Zeros(BlockPad(Len(bytes)))

BinForks(data, rsrc) ==
    (IF data # <<>> THEN <<Fork(MUNBOX_FORK_DATA, Len(data), 128 + Len(Padded(data)))>>
     ELSE <<>>)
    \o (IF rsrc # <<>>
        THEN <<Fork(MUNBOX_FORK_RESOURCE, Len(rsrc), 128 + Len(Padded(data)) + Len(rsrc))>>
        ELSE <<>>)

BinInput(name, data, rsrc) ==
    Input(BinHeader(name, Len(data), Len(rsrc), 0, 0, TRUE) \o Padded(data) \o Padded(rsrc),
          BinForks(data, rsrc))

BinInputs ==
    << \* data and resource fork
       BinInput(<<97>>, <<65, 66, 67>>, <<82, 83>>),
       \* data fork only
       BinInput(<<98>>, <<65, 66>>, <<>>),
       \* resource fork only
       BinInput(<<99>>, <<>>, <<82>>),
       \* no forks
       BinInput(<<84, 69, 83, 84>>, <<>>, <<>>),
       \* a data fork of 5 bytes of which the file holds 2
       Input(BinHeader(<<97>>, 5, 0, 0, 0, TRUE) \o <<65, 66>>,
             <<Fork(MUNBOX_FORK_DATA, 5, 0)>>),
       \* wrong CRC and byte 82 set
       Input(BinHeader(<<97>>, 1, 0, 0, 1, FALSE) \o Padded(<<65>>), <<>>),
       \* wrong CRC and byte 82 clear
       Input(BinHeader(<<97>>, 1, 0, 0, 0, FALSE) \o Padded(<<65>>),
             <<Fork(MUNBOX_FORK_DATA, 1, 256)>>),
       \* a secondary header of 4 bytes announced, of which the file holds 2
       Input(BinHeader(<<97>>, 1, 0, 4, 0, TRUE) \o <<1, 2>>, <<>>) >>

\* a data fork of 5 bytes of which the file holds 2, and a resource fork of 1
\* byte of which it holds nothing
BinShortWithRsrc ==
    Input(BinHeader(<<97>>, 5, 1, 0, 0, TRUE) \o <<65, 66>>,
          <<Fork(MUNBOX_FORK_DATA, 5, 0), Fork(MUNBOX_FORK_RESOURCE, 1, 0)>>)

\* a data fork "A" and a resource fork that begins as a StuffIt archive does:
\* the 14 bytes from "SIT!" to "rLau"
BinSitInRsrc == BinInput(<<97>>, <<65>>, SubSeq(SitArchiveBytes(0, <<>>), 1, 14))

\* --- Compact Pro ---
\* a file entry of the directory: name, 45 bytes of metadata
CptFileEntryAt(name, file_offset, flags, rlen, dlen, rcomp_len, dcomp_len) ==
    <<Len(name)>> \o name \o <<1>> \o file_offset \o Zeros(22) \o BE16(flags)
        \o BE32(rlen) \o BE32(dlen) \o BE32(rcomp_len) \o BE32(dcomp_len)

CptFileEntry(name, file_offset, flags, rlen, dlen, rcomp_len, dcomp_len) ==
    CptFileEntryAt(name, BE32(file_offset), flags, rlen, dlen, rcomp_len, dcomp_len)

CptDirEntry(name, child_count) ==
    <<CPT_ENTRY_DIR_FLAG + Len(name)>> \o name \o BE16(child_count)

\* header, the stored fork bytes, then the directory at dir_offset
CptArchive(dir_offset, body, total_entries, dir) ==
    <<CPT_MAGIC_BYTE, CPT_VOLUME_SINGLE, 0, 0>> \o BE32(dir_offset) \o body
        \o Zeros(4) \o BE16(total_entries) \o <<0>> \o dir

CptInputs ==
    << \* one file: resource fork "R" at 8, data fork "AB" at 9
       Input(CptArchive(11, <<82, 65, 66>>, 1, CptFileEntry(<<97>>, 8, 0, 1, 2, 1, 2)),
             <<Fork(MUNBOX_FORK_DATA, 2, 11), Fork(MUNBOX_FORK_RESOURCE, 1, 9)>>),
       \* a folder holding a file with a run-length coded data fork, then a
       \* file with no forks, then a file with only a resource fork
       Input(CptArchive(13, <<65, 129, 130, 3, 82>>, 4,
                        CptDirEntry(<<100>>, 1)
                            \o CptFileEntry(<<97>>, 8, 0, 0, 3, 0, 4)
                            \o CptFileEntry(<<101>>, 12, 0, 0, 0, 0, 0)
                            \o CptFileEntry(<<98>>, 12, 0, 1, 0, 1, 0)),
             <<Fork(MUNBOX_FORK_DATA, 3, 12), Fork(MUNBOX_FORK_RESOURCE, 1, 13)>>),
       \* a data fork of 5 bytes of which 1 is stored
       Input(CptArchive(9, <<65>>, 1, CptFileEntry(<<97>>, 8, 0, 0, 5, 0, 1)),
             <<Fork(MUNBOX_FORK_DATA, 5, 9)>>),
       \* a data fork stored beyond the end of the archive
       Input(CptArchive(9, <<65>>, 1, CptFileEntry(<<97>>, 8, 0, 0, 2, 0, 120)),
             <<Fork(MUNBOX_FORK_DATA, 2, 0)>>),
       \* no entries
       Input(CptArchive(8, <<>>, 0, <<>>), <<>>),
       \* a directory offset beyond the end of the archive
       Input(<<CPT_MAGIC_BYTE, CPT_VOLUME_SINGLE, 0, 0>> \o BE32(64) \o <<65, 66>>, <<>>),
       \* an entry at offset 2^32 - 4 with an empty resource fork said to take
       \* 12 bytes: the data fork would begin 8 bytes past 2^32
       Input(CptArchive(10, <<65, 66>>, 1,
                        CptFileEntryAt(<<97>>, <<255, 255, 255, 252>>, 0, 0, 2, 12, 2)),
             <<Fork(MUNBOX_FORK_DATA, 2, 10)>>) >>

\* one file whose flags have the encrypted bit set, data fork "AB" stored at 8
CptEncrypted ==
    Input(CptArchive(10, <<65, 66>>, 1,
                     CptFileEntry(<<97>>, 8, CPT_FLAG_ENCRYPTED, 0, 2, 0, 2)),
          <<Fork(MUNBOX_FORK_DATA, 2, 10)>>)

\* one file with an empty data fork and a stored resource fork "R"
SitRsrcOnly ==
    Bind(<<SitFile(<<98>>, 0, <<>>, <<>>, 0, <<82>>, <<82>>)>>, LAMBDA es :
        Input(SitArchiveBytes(1, es), SitForks(es, 22)))

CptRsrcOnly ==
    Input(CptArchive(9, <<82>>, 1, CptFileEntry(<<98>>, 8, 0, 1, 0, 1, 0)),
          <<Fork(MUNBOX_FORK_RESOURCE, 1, 9)>>)

\* a data fork "AB" stored as A, a run of count 1, B
CptRunOfOne ==
    Input(CptArchive(13, <<65, 129, 130, 1, 66>>, 1, CptFileEntry(<<97>>, 8, 0, 0, 2, 0, 5)),
          <<Fork(MUNBOX_FORK_DATA, 2, 13)>>)

\* a data fork of two bytes 0x81 stored as 0x81 0x81 0x82 0x02: the second
\* 0x81 begins the run
CptEscapeTwice ==
    Input(CptArchive(12, <<129, 129, 130, 2>>, 1, CptFileEntry(<<97>>, 8, 0, 0, 2, 0, 4)),
          <<Fork(MUNBOX_FORK_DATA, 2, 12)>>)

PlainInputs ==
    << <<>>, <<65>>, <<65, 66>>, <<72, 105, 10>>, <<65, 66, 67, 68>>,
       <<1, 1, 0, 0, 0, 0, 0, 8, 0>>,
       <<83, 73, 84, 33, 0, 1, 0, 0, 0, 22, 120, 76, 97, 117, 1, 0>>,
       [i \in 1..20 |-> 64 + i] >>

Inputs ==
    [i \in 1..Len(PlainInputs) |-> Input(PlainInputs[i], <<>>)]
        \o SitInputs \o HqxInputs \o BinInputs \o CptInputs
        \o <<HqxWrongDataCrc, HqxWrongRsrcCrc, HqxRunAfterCrc, HqxRunOfOne, HqxRunOfMarker,
              BinShortWithRsrc, BinSitInRsrc, CptEncrypted, SitRsrcOnly, CptRsrcOnly,
              CptRunOfOne, CptEscapeTwice>>

Data(i) == Inputs[i].bytes

Expected(i) == Inputs[i].forks

(***************************************************************************)
(* Dispatch through the function pointers of munbox_layer_t.               *)
(***************************************************************************)
Factories == {"sit", "hqx", "bin", "cpt"}

factory(f, s, data) ==
    CASE f = "sit" -> munbox_new_sit_layer(s, data)
      [] f = "hqx" -> munbox_new_hqx_layer(s, data)
      [] f = "bin" -> munbox_new_bin_layer(s, data)
      [] f = "cpt" -> munbox_new_cpt_layer(s, data)

layer_open(l, s, data, what) ==
    CASE l.kind = "sit" -> sit_layer_open(l, s, data, what)
      [] l.kind = "hqx" -> hqx_layer_open(l, s, data, what)
      [] l.kind = "bin" -> bin_layer_open(l, s, data, what)
      [] l.kind = "cpt" -> cpt_layer_open(l, s, data, what)

layer_read(l, s, data, cnt) ==
    CASE l.kind = "sit" -> sit_layer_read(l, s, data, cnt)
      [] l.kind = "hqx" -> hqx_layer_read(l, s, data, cnt)
      [] l.kind = "bin" -> bin_layer_read(l, s, data, cnt)
      [] l.kind = "cpt" -> cpt_layer_read(l, s, data, cnt)

layer_close(l, s) ==
    CASE l.kind = "sit" -> sit_layer_close(l, s)
      [] l.kind = "hqx" -> hqx_layer_close(l, s)
      [] l.kind = "bin" -> bin_layer_close(l, s)
      [] l.kind = "cpt" -> cpt_layer_close(l, s)

(***************************************************************************)
(* SourceSpec: a caller drives a file or memory source through open and    *)
(* read, in any order, making up to MaxPasses open(FIRST) passes.          *)
(*   cl.pass    number of open(FIRST) calls made                           *)
(*   cl.outs    per pass, the bytes read() has delivered                   *)
(*   cl.ended   per pass, whether a read() has returned 0                  *)
(*   cl.op, cl.ret, cl.got   the last call, its return value and bytes     *)
(***************************************************************************)
SourceInit ==
    /\ input \in 1..Len(PlainInputs)
    /\ \E kind \in {"file", "mem"}, bad \in {-1, 1, 3} :
          src = NewSource(kind, IF kind = "file" THEN bad ELSE -1)
    /\ lay = NoLayer
    /\ cl = [pass |-> 0, outs |-> <<>>, ended |-> <<>>, op |-> "none", ret |-> 0, got |-> <<>>]
    /\ drv = NoDriver

SourceOpenFirst ==
    /\ cl.pass < MaxPasses
    /\ \E r \in {src_open(src, MUNBOX_OPEN_FIRST)} :
           /\ src' = r.s
           /\ cl' = [cl EXCEPT !.pass = cl.pass + 1,
                               !.outs = Append(cl.outs, <<>>),
                               !.ended = Append(cl.ended, FALSE),
                               !.op = "open_first", !.ret = r.rc, !.got = <<>>]
    /\ UNCHANGED <<input, lay, drv>>

SourceOpenNext ==
    /\ \E r \in {src_open(src, MUNBOX_OPEN_NEXT)} :
           /\ src' = r.s
           /\ cl' = [cl EXCEPT !.op = "open_next", !.ret = r.rc, !.got = <<>>]
    /\ UNCHANGED <<input, lay, drv>>

SourceRead ==
    /\ \E cnt \in 1..MaxCnt :
          \E r \in {src_read(src, Data(input), cnt)} :
          LET p == cl.pass
          IN  /\ src' = r.s
              /\ cl' = [cl EXCEPT !.op = "read", !.ret = r.n, !.got = r.bytes,
                                  !.outs = IF p > 0 /\ r.n > 0
                                           THEN [cl.outs EXCEPT ![p] = @ \o r.bytes]
                                           ELSE cl.outs,
                                  !.ended = IF p > 0 /\ r.n = 0
                                            THEN [cl.ended EXCEPT ![p] = TRUE]
                                            ELSE cl.ended]
    /\ UNCHANGED <<input, lay, drv>>

SourceNext == SourceOpenFirst \/ SourceOpenNext \/ SourceRead

SourceSpec == SourceInit /\ [][SourceNext]_vars

IsPrefix(a, b) == Len(a) <= Len(b) /\ a = SubSeq(b, 1, Len(a))

\* C9: rewind idempotence of the source layers.  Every open(FIRST) pass
\* delivers the input from offset 0: what a pass has read so far is a prefix
\* of the input, so any two passes agree byte for byte, and a pass that was
\* read to the end (read returned 0) has delivered the whole input.
C9_RewindIdempotent ==
    \A p \in 1..cl.pass :
        /\ IsPrefix(cl.outs[p], Data(input))
        /\ \A q \in 1..cl.pass :
              IsPrefix(cl.outs[p], cl.outs[q]) \/ IsPrefix(cl.outs[q], cl.outs[p])
        /\ cl.ended[p] => cl.outs[p] = Data(input)

\* a second pass has delivered bytes after the first pass was read to its end
C9_Witness ==
    /\ cl.pass = 2
    /\ cl.ended[1]
    /\ Len(cl.outs[1]) >= 2
    /\ cl.ended[2]
    /\ cl.outs[2] = cl.outs[1]

(***************************************************************************)
(* LayerSpec: a caller builds one format layer over a fresh source with    *)
(* one of the factories and drives it through open, read and close in any  *)
(* order.  When the factory declines, the caller reads the source it still *)
(* owns.                                                                   *)
(*   cl.phase   "fresh", "built", "declined", "closed", "crashed", "hung"  *)
(*   cl.by      the factory called                                         *)
(*   cl.pass    number of open(FIRST) calls made                           *)
(*   cl.opens   1 once an open call has been made on the layer, else 0     *)
(*   cl.early   the last read was called before any open call              *)
(*   cl.inorder the first call on the layer was open(FIRST)                *)
(*   cl.whole   the current pass began with open(FIRST) and no open in it  *)
(*              has returned an error                                      *)
(*   cl.done    an open of the current pass has returned 0                 *)
(*   cl.forks   per fork opened in the current pass: the info returned,    *)
(*              the bytes read, whether read returned 0 ("ended"), whether *)
(*              read returned an error ("failed"), the source position     *)
(*              when the fork was opened                                   *)
(*   cl.skipped when the last open(NEXT) was called on a fork that was open *)
(*              and had delivered fewer bytes than its length, the index   *)
(*              of that fork in cl.forks; else 0                           *)
(*   cl.again   the last read was called on a fork whose read had already  *)
(*              returned 0                                                 *)
(*   cl.rest    bytes read from the source after a factory declined        *)
(*   cl.op, cl.ret, cl.got   the last call, its return value and bytes     *)
(***************************************************************************)
\* the inputs the layer client reads a few bytes at a time; the MacBinary file
\* with an archive in its resource fork is read by munbox_process only
LayerInputs == {i \in 1..Len(Inputs) : Inputs[i] # BinSitInRsrc}

LayerInit ==
    /\ input \in LayerInputs
    /\ \E kind \in {"file", "mem"} : src = NewSource(kind, -1)
    /\ lay = NoLayer
    /\ cl = [phase |-> "fresh", by |-> "none", pass |-> 0, opens |-> 0, early |-> FALSE,
             inorder |-> TRUE,
             whole |-> FALSE, skipped |-> 0, again |-> FALSE,
             done |-> FALSE, forks |-> <<>>, rest |-> <<>>,
             op |-> "none", ret |-> 0, got |-> <<>>]
    /\ drv = NoDriver

LayerBuild ==
    /\ cl.phase = "fresh"
    /\ \E f \in Factories :
          \E r \in {factory(f, src, Data(input))} :
              /\ lay' = r.l
              /\ src' = r.s
              /\ cl' = [cl EXCEPT !.phase = IF r.l.kind = "none" THEN "declined" ELSE "built",
                                  !.by = f, !.op = "build"]
    /\ UNCHANGED <<input, drv>>

ForkRecord(info, at) ==
    [info |-> info, out |-> <<>>, ended |-> FALSE, failed |-> FALSE, at |-> at]

LayerOpenCall ==
    /\ cl.phase = "built"
    /\ lay.has_open
    /\ \E what \in {MUNBOX_OPEN_FIRST, MUNBOX_OPEN_NEXT} :
          /\ what = MUNBOX_OPEN_FIRST => cl.pass < MaxPasses
          /\ \E r \in {layer_open(lay, src, Data(input), what)} :
             LET first == what = MUNBOX_OPEN_FIRST
                 forks0 == IF first THEN <<>> ELSE cl.forks
                 whole0 == IF first THEN TRUE ELSE cl.whole
                 done0 == IF first THEN FALSE ELSE cl.done
                 k == Len(cl.forks)
                 partly == /\ ~first /\ k > 0 /\ ~cl.done
                           /\ cl.op \in {"open", "read"} /\ cl.ret >= 0
                           /\ ~cl.forks[k].ended /\ ~cl.forks[k].failed
                           /\ Len(cl.forks[k].out) < cl.forks[k].info.length
             IN  /\ lay' = r.l
                 /\ src' = r.s
                 /\ cl' = [cl EXCEPT
                              !.pass = IF first THEN cl.pass + 1 ELSE cl.pass,
                              !.opens = 1,
                              !.inorder = @ /\ (first \/ cl.opens > 0),
                              !.whole = whole0 /\ r.rc >= 0,
                              !.skipped = IF partly THEN k ELSE 0,
                              !.again = FALSE,
                              !.done = done0 \/ r.rc = 0,
                              !.forks = IF r.rc = 1
                                        THEN Append(forks0, ForkRecord(r.info, r.s.pos))
                                        ELSE forks0,
                              !.op = "open", !.ret = r.rc, !.got = <<>>]
    /\ UNCHANGED <<input, drv>>

\* what the caller sees of a read() through a function pointer that is set
Observe(r) ==
    LET k == Len(cl.forks)
    IN  [cl EXCEPT
            !.phase = IF r.hang THEN "hung" ELSE cl.phase,
            !.early = cl.opens = 0,
            !.inorder = @ /\ cl.opens > 0,
            !.again = k > 0 /\ ~cl.done /\ cl.forks[k].ended,
            !.forks = IF k > 0 /\ ~cl.done /\ ~r.hang
                      THEN [cl.forks EXCEPT ![k] =
                               [@ EXCEPT !.out = @ \o r.bytes,
                                         !.ended = @ \/ r.n = 0,
                                         !.failed = @ \/ r.n < 0]]
                      ELSE cl.forks,
            !.op = "read", !.ret = r.n, !.got = r.bytes]

\* read() through a NULL function pointer is undefined: the process dies, or
\* the call comes back with some value and some bytes in the buffer
NullCallOutcomes ==
    {[crash |-> TRUE, n |-> 0, bytes |-> <<>>]}
        \cup {[crash |-> FALSE, n |-> MUNBOX_ERROR, bytes |-> <<>>],
              [crash |-> FALSE, n |-> 0, bytes |-> <<>>],
              [crash |-> FALSE, n |-> 1, bytes |-> <<0>>]}

LayerReadCall ==
    /\ cl.phase = "built"
    /\ IF lay.has_read
       THEN \E cnt \in 1..MaxCnt :
               \E r \in {layer_read(lay, src, Data(input), cnt)} :
                   /\ lay' = r.l
                   /\ src' = r.s
                   /\ cl' = Observe(r)
       ELSE \E o \in NullCallOutcomes :
               /\ UNCHANGED <<lay, src>>
               /\ cl' = IF o.crash THEN [cl EXCEPT !.phase = "crashed", !.op = "read",
                                            !.inorder = @ /\ cl.opens > 0,
                                            !.early = cl.opens = 0]
                        ELSE Observe([n |-> o.n, bytes |-> o.bytes, hang |-> FALSE])
    /\ UNCHANGED <<input, drv>>

LayerReadDeclined ==
    /\ cl.phase = "declined"
    /\ Len(cl.rest) < MaxRest
    /\ \E cnt \in 1..MaxCnt :
          \E r \in {src_read(src, Data(input), cnt)} :
              /\ src' = r.s
              /\ cl' = [cl EXCEPT !.rest = IF r.n > 0 THEN @ \o r.bytes ELSE @,
                                  !.op = "read", !.ret = r.n, !.got = r.bytes]
    /\ UNCHANGED <<input, lay, drv>>

LayerCloseCall ==
    /\ cl.phase \in {"built", "declined"}
    /\ IF cl.phase = "built"
       THEN \E r \in {layer_close(lay, src)} :
                lay' = r.l /\ src' = r.s
       ELSE lay' = lay /\ src' = source_close(src)
    /\ cl' = [cl EXCEPT !.phase = "closed", !.op = "close"]
    /\ UNCHANGED <<input, drv>>

LayerNext ==
    \/ LayerBuild
    \/ LayerOpenCall
    \/ LayerReadCall
    \/ LayerReadDeclined
    \/ LayerCloseCall

LayerSpec == LayerInit /\ [][LayerNext]_vars

(***************************************************************************)
(* ProcessSpec: munbox_process run over a fresh source, with callbacks     *)
(* that succeed or fail as they choose.  The driver is                     *)
(*   drv.pc       where munbox_process stands                              *)
(*   drv.i        the index of the factory loop                            *)
(*   drv.last     last_transform_handler, -1 when none                     *)
(*   drv.rc       the result of the last open                              *)
(*   drv.ret      ret, and at "returned" the value returned                *)
(*   drv.user     user_data is set                                         *)
(*   drv.name     current_name                                             *)
(*   drv.info     info of the fork being streamed                          *)
(*   drv.buf, drv.cap   the fork buffer and its capacity                   *)
(*   drv.log      the callbacks made, in order                             *)
(*   drv.through  the factory loop ran to its end with no factory accepting*)
(*   drv.iterated open(FIRST) was called on an accepted layer              *)
(*   drv.partway  a factory gave up after it had consumed input it did not *)
(*                put back                                                 *)
(*   drv.tried    the factories called so far, in order                    *)
(*   drv.aborted  a callback that was called returned non-zero             *)
(*   drv.allocs   the fork buffers allocated by the realloc of a read loop *)
(*   drv.frees    the calls of free() on a fork buffer                     *)
(***************************************************************************)
g_format_handlers == <<"sit", "hqx", "bin", "cpt">>

\* 64 * 1024, the room the fork buffer keeps free before each read
ReadRoom == 65536

\* sizeof buffer of the raw streaming loop
RawChunk == 4096

Untitled == <<117, 110, 116, 105, 116, 108, 101, 100>>

\* what a callback returns: 0 to go on, anything else to abort
CallbackResults == {0, 1}

Event(ev, name, bytes) == [ev |-> ev, name |-> name, bytes |-> bytes]

ProcessInit ==
    /\ input \in 1..Len(Inputs)
    /\ \E kind \in {"file", "mem"} : src = NewSource(kind, -1)
    /\ lay = NoLayer
    /\ cl = NoClient
    /\ drv = [pc |-> "factories", i |-> 0, last |-> -1, rc |-> 0, ret |-> 0,
              user |-> FALSE, name |-> <<>>, info |-> NoInfo, buf |-> <<>>, cap |-> 0,
              log |-> <<>>, through |-> FALSE, iterated |-> FALSE, partway |-> FALSE,
              tried |-> <<>>, aborted |-> FALSE, allocs |-> 0, frees |-> 0]

\* the realloc at the head of each read loop
GrowCap(cap, size) ==
    IF cap - size < ReadRoom THEN (IF cap > 0 THEN cap * 2 ELSE ReadRoom) ELSE cap

\* one turn of the factory loop
ProcessTryFactory ==
    /\ drv.pc = "factories"
    /\ IF drv.i >= Len(g_format_handlers)
       THEN /\ drv' = [drv EXCEPT !.pc = "fallback_open", !.through = TRUE]
            /\ UNCHANGED <<src, lay>>
       ELSE IF drv.i = drv.last
       THEN /\ drv' = [drv EXCEPT !.i = @ + 1]
            /\ UNCHANGED <<src, lay>>
       ELSE
           LET f == g_format_handlers[drv.i + 1]
           IN
           \E r \in {factory(f, src, Data(input))} :
               IF r.l.kind = "none"
               THEN /\ src' = r.s
                    /\ lay' = lay
                    /\ drv' = [drv EXCEPT !.i = @ + 1, !.tried = Append(@, f),
                                          !.partway = @ \/ (f # "sit" /\ r.s.pos > 0)]
               ELSE IF r.l.has_open /\ r.l.has_read
               THEN /\ src' = r.s
                    /\ lay' = r.l
                    /\ drv' = [drv EXCEPT !.pc = "iter_first", !.tried = Append(@, f)]
               ELSE IF r.l.has_read
               THEN \* a transforming layer becomes current_layer and the loop restarts
                    /\ src' = r.s
                    /\ lay' = r.l
                    /\ drv' = [drv EXCEPT !.pc = "stacked", !.last = drv.i, !.i = 0,
                                          !.tried = Append(@, f)]
               ELSE \E c \in {layer_close(r.l, r.s)} :
                        /\ src' = c.s
                        /\ lay' = c.l
                        /\ drv' = [drv EXCEPT !.pc = "returned", !.ret = MUNBOX_ERROR,
                                              !.tried = Append(@, f)]
    /\ UNCHANGED <<input, cl>>

\* format_layer->open(MUNBOX_OPEN_FIRST)
ProcessIterFirst ==
    /\ drv.pc = "iter_first"
    /\ \E r \in {layer_open(lay, src, Data(input), MUNBOX_OPEN_FIRST)} :
           IF r.rc < 0
           THEN \E c \in {layer_close(r.l, r.s)} :
                    /\ lay' = c.l
                    /\ src' = c.s
                    /\ drv' = [drv EXCEPT !.pc = "returned", !.ret = r.rc, !.rc = r.rc,
                                          !.iterated = TRUE]
           ELSE /\ lay' = r.l
                /\ src' = r.s
                /\ drv' = [drv EXCEPT !.pc = "iter_file", !.rc = r.rc, !.info = r.info,
                                      !.iterated = TRUE]
    /\ UNCHANGED <<input, cl>>

\* the head of the while (rc == 1) loop: start a new file when the name changes
ProcessIterFile ==
    /\ drv.pc = "iter_file"
    /\ IF drv.rc # 1
       THEN drv' = [drv EXCEPT !.pc = "iter_finish"]
       ELSE IF drv.name = <<>> \/ drv.name # drv.info.filename
       THEN \E e \in CallbackResults, n \in CallbackResults :
               LET ended == IF drv.user
                            THEN Append(drv.log, Event("end_file", <<>>, <<>>))
                            ELSE drv.log
               IN  IF drv.user /\ e # 0
                   THEN drv' = [drv EXCEPT !.pc = "iter_finish", !.ret = MUNBOX_ABORT,
                                           !.aborted = TRUE, !.log = ended]
                   ELSE IF n # 0
                   THEN drv' = [drv EXCEPT !.pc = "iter_finish", !.ret = MUNBOX_ABORT,
                                           !.aborted = TRUE, !.user = FALSE,
                                           !.log = Append(ended,
                                               Event("new_file", drv.info.filename, <<>>))]
                   ELSE drv' = [drv EXCEPT !.pc = "iter_read", !.user = TRUE,
                                           !.name = drv.info.filename,
                                           !.buf = <<>>, !.cap = 0,
                                           !.log = Append(ended,
                                               Event("new_file", drv.info.filename, <<>>))]
       ELSE drv' = [drv EXCEPT !.pc = "iter_read", !.buf = <<>>, !.cap = 0]
    /\ UNCHANGED <<input, src, lay, cl>>

\* one turn of the read loop of the current fork
ProcessIterRead ==
    /\ drv.pc = "iter_read"
    /\ \E cap \in {GrowCap(drv.cap, Len(drv.buf))} :
       \E r \in {layer_read(lay, src, Data(input), cap - Len(drv.buf))} :
           /\ lay' = r.l
           /\ src' = r.s
           /\ drv' = IF r.hang THEN [drv EXCEPT !.pc = "hung"]
                     ELSE IF r.n < 0
                     THEN [drv EXCEPT !.pc = "iter_finish", !.ret = MUNBOX_ERROR, !.cap = cap,
                                      !.allocs = IF drv.cap = 0 THEN @ + 1 ELSE @,
                                      !.frees = @ + 1]
                     ELSE IF r.n = 0
                     THEN [drv EXCEPT !.pc = IF drv.ret # 0 THEN "iter_finish"
                                             ELSE "iter_write",
                                      !.cap = cap,
                                      !.allocs = IF drv.cap = 0 THEN @ + 1 ELSE @,
                                      !.frees = IF drv.ret # 0 THEN @ + 1 ELSE @]
                     ELSE [drv EXCEPT !.buf = @ \o r.bytes, !.cap = cap,
                                      !.allocs = IF drv.cap = 0 THEN @ + 1 ELSE @]
    /\ UNCHANGED <<input, cl>>

\* hand the fork to its callback, then format_layer->open(MUNBOX_OPEN_NEXT).
\* When the callback fails the buffer is freed twice, which is undefined: the
\* process dies there or goes on.
ProcessIterWrite ==
    /\ drv.pc = "iter_write"
    /\ \E w \in CallbackResults, dies \in BOOLEAN :
          LET rsrc == drv.info.fork_type = MUNBOX_FORK_RESOURCE
              called == rsrc \/ Len(drv.buf) > 0
              log == IF called
                     THEN Append(drv.log,
                              Event(IF rsrc THEN "write_resource_fork" ELSE "write_data",
                                    <<>>, drv.buf))
                     ELSE drv.log
              failed == called /\ w # 0
          IN
          \E r \in {layer_open(lay, src, Data(input), MUNBOX_OPEN_NEXT)} :
              IF failed /\ dies
              THEN /\ drv' = [drv EXCEPT !.pc = "crashed", !.aborted = TRUE, !.log = log,
                                         !.frees = @ + 2]
                   /\ UNCHANGED <<lay, src>>
              ELSE /\ lay' = r.l
                   /\ src' = r.s
                   /\ drv' = [drv EXCEPT !.pc = "iter_file", !.log = log,
                                         !.ret = IF failed THEN MUNBOX_ABORT ELSE @,
                                         !.aborted = @ \/ failed,
                                         !.frees = IF failed THEN @ + 2 ELSE @ + 1,
                                         !.rc = r.rc,
                                         !.info = IF r.rc = 1 THEN r.info ELSE @]
    /\ UNCHANGED <<input, cl>>

\* after the loop: end the last file, close the layer, return ret
ProcessIterFinish ==
    /\ drv.pc = "iter_finish"
    /\ \E e \in CallbackResults :
          \E c \in {layer_close(lay, src)} :
          LET ends == drv.ret = 0 /\ drv.user
          IN  /\ lay' = c.l
              /\ src' = c.s
              /\ drv' = [drv EXCEPT !.pc = "returned",
                                    !.ret = IF ends /\ e # 0 THEN MUNBOX_ABORT ELSE @,
                                    !.aborted = @ \/ (ends /\ e # 0),
                                    !.log = IF ends
                                            THEN Append(@, Event("end_file", <<>>, <<>>))
                                            ELSE @]
    /\ UNCHANGED <<input, cl>>

\* the fallback: open current_layer, which is the source, and start the one
\* file
ProcessFallbackOpen ==
    /\ drv.pc = "fallback_open"
    /\ \E n \in CallbackResults :
          \E r \in {src_open(src, MUNBOX_OPEN_FIRST)} :
          LET filename == IF r.rc = 1 /\ r.info.filename # <<>> THEN r.info.filename
                          ELSE Untitled
              log == Append(drv.log, Event("new_file", filename, <<>>))
          IN  /\ lay' = lay
              /\ IF r.rc < 0
                 THEN /\ src' = source_close(r.s)
                      /\ drv' = [drv EXCEPT !.pc = "returned", !.ret = MUNBOX_ERROR,
                                            !.rc = r.rc]
                 ELSE IF n # 0
                 THEN /\ src' = source_close(r.s)
                      /\ drv' = [drv EXCEPT !.pc = "returned", !.ret = MUNBOX_ABORT,
                                            !.aborted = TRUE, !.rc = r.rc, !.log = log]
                 ELSE /\ src' = r.s
                      /\ drv' = [drv EXCEPT !.pc = "fallback_read", !.rc = r.rc,
                                            !.info = r.info, !.user = TRUE,
                                            !.buf = <<>>, !.cap = 0, !.log = log]
    /\ UNCHANGED <<input, cl>>

\* one turn of the read loop of the fallback: into the growing fork buffer
\* when open returned a fork, in chunks handed straight to write_data when not
ProcessFallbackRead ==
    /\ drv.pc = "fallback_read"
    /\ \E w \in CallbackResults :
          \E cap \in {IF drv.rc = 1 THEN GrowCap(drv.cap, Len(drv.buf)) ELSE RawChunk} :
          \E r \in {src_read(src, Data(input),
                             IF drv.rc = 1 THEN cap - Len(drv.buf) ELSE RawChunk)} :
          LET ended == Append(drv.log, Event("end_file", <<>>, <<>>))
              wrote == Append(drv.log, Event("write_data", <<>>, r.bytes))
          IN  /\ lay' = lay
              /\ IF r.n < 0
                 THEN /\ src' = source_close(r.s)
                      /\ drv' = [drv EXCEPT !.pc = "returned", !.ret = MUNBOX_ERROR,
                                            !.log = ended,
                                            !.allocs = IF drv.rc = 1 /\ drv.cap = 0
                                                       THEN @ + 1 ELSE @,
                                            !.frees = IF drv.rc = 1 THEN @ + 1 ELSE @]
                 ELSE IF drv.rc = 1
                 THEN /\ src' = r.s
                      /\ drv' = IF r.n = 0
                                THEN [drv EXCEPT !.pc = "fallback_write", !.cap = cap,
                                                 !.allocs = IF drv.cap = 0 THEN @ + 1 ELSE @]
                                ELSE [drv EXCEPT !.buf = @ \o r.bytes, !.cap = cap,
                                                 !.allocs = IF drv.cap = 0 THEN @ + 1 ELSE @]
                 ELSE IF r.n = 0
                 THEN /\ src' = r.s
                      /\ drv' = [drv EXCEPT !.pc = "fallback_end"]
                 ELSE IF w # 0
                 THEN /\ src' = source_close(r.s)
                      /\ drv' = [drv EXCEPT !.pc = "returned", !.ret = MUNBOX_ABORT,
                                            !.aborted = TRUE,
                                            !.log = Append(wrote,
                                                       Event("end_file", <<>>, <<>>))]
                 ELSE /\ src' = r.s
                      /\ drv' = [drv EXCEPT !.log = wrote]
    /\ UNCHANGED <<input, cl>>

\* hand the fork to its callback, then current_layer->open(MUNBOX_OPEN_NEXT)
ProcessFallbackWrite ==
    /\ drv.pc = "fallback_write"
    /\ \E w \in CallbackResults :
          LET rsrc == drv.info.fork_type = MUNBOX_FORK_RESOURCE
              called == rsrc \/ Len(drv.buf) > 0
              log == IF called
                     THEN Append(drv.log,
                              Event(IF rsrc THEN "write_resource_fork" ELSE "write_data",
                                    <<>>, drv.buf))
                     ELSE drv.log
              ended == Append(log, Event("end_file", <<>>, <<>>))
          IN
          \E r \in {src_open(src, MUNBOX_OPEN_NEXT)} :
              /\ lay' = lay
              /\ IF called /\ w # 0
                 THEN /\ src' = source_close(src)
                      /\ drv' = [drv EXCEPT !.pc = "returned", !.ret = MUNBOX_ABORT,
                                            !.aborted = TRUE, !.log = ended,
                                            !.frees = @ + 1]
                 ELSE IF r.rc < 0
                 THEN /\ src' = source_close(r.s)
                      /\ drv' = [drv EXCEPT !.pc = "returned", !.ret = MUNBOX_ERROR,
                                            !.log = ended, !.frees = @ + 1]
                 ELSE /\ src' = r.s
                      /\ drv' = [drv EXCEPT !.pc = IF r.rc = 1 THEN "fallback_read"
                                                   ELSE "fallback_end",
                                            !.info = IF r.rc = 1 THEN r.info ELSE @,
                                            !.buf = <<>>, !.cap = 0, !.log = log,
                                            !.frees = @ + 1]
    /\ UNCHANGED <<input, cl>>

\* end the file and close current_layer
ProcessFallbackEnd ==
    /\ drv.pc = "fallback_end"
    /\ \E e \in CallbackResults :
          /\ src' = source_close(src)
          /\ drv' = [drv EXCEPT !.pc = "returned",
                                !.ret = IF e # 0 THEN MUNBOX_ABORT ELSE 0,
                                !.aborted = @ \/ e # 0,
                                !.log = Append(@, Event("end_file", <<>>, <<>>))]
    /\ UNCHANGED <<input, lay, cl>>

ProcessNext ==
    \/ ProcessTryFactory
    \/ ProcessIterFirst
    \/ ProcessIterFile
    \/ ProcessIterRead
    \/ ProcessIterWrite
    \/ ProcessIterFinish
    \/ ProcessFallbackOpen
    \/ ProcessFallbackRead
    \/ ProcessFallbackWrite
    \/ ProcessFallbackEnd

ProcessSpec == ProcessInit /\ [][ProcessNext]_vars

(***************************************************************************)
(* Properties of the format layers, stated over LayerSpec.                 *)
(***************************************************************************)
\* index of the fork of the current pass that is open, 0 when none is
CurFork == IF cl.done THEN 0 ELSE Len(cl.forks)

Enumerated ==
    [k \in 1..Len(cl.forks) |-> <<cl.forks[k].info.fork_type, cl.forks[k].info.length>>]

NonEmptyForks ==
    [k \in 1..Len(Expected(input)) |->
        <<Expected(input)[k].fork_type, Expected(input)[k].length>>]

\* the pass made so far is one iteration over a layer that can serve it: any
\* pass of a rewinding layer, the only pass of the single-pass HQX decoder
FullPass ==
    /\ cl.phase = "built"
    /\ cl.whole
    /\ lay.kind = "hqx" => (cl.pass = 1 /\ cl.inorder)

\* C1: a read made on a layer before any open call returns MUNBOX_ERROR and
\* delivers no bytes.
C1_ReadBeforeOpenIsError ==
    (cl.phase \in {"built", "crashed"} /\ cl.op = "read" /\ cl.early)
        => (cl.phase = "built" /\ cl.ret = MUNBOX_ERROR /\ cl.got = <<>>)

\* C3: after a factory has declined, reads on the input return the bytes of
\* the input from its beginning.
C3_DeclineLeavesInputRewound ==
    cl.phase = "declined" => IsPrefix(cl.rest, Data(input))

\* C5: when read has returned 0 on a fork, the bytes delivered for the fork
\* number exactly the length reported by the open that began it.
C5_LengthConformance ==
    \A k \in 1..Len(cl.forks) :
        cl.forks[k].ended => Len(cl.forks[k].out) = cl.forks[k].info.length

\* C6: no read ends a SIT fork of method 0 or 1 with a normal 0 while the CRC
\* of the bytes delivered differs from the expected_crc of the fork.
C6_CrcMismatchFatal ==
    (/\ cl.phase = "built" /\ lay.kind = "sit"
     /\ cl.op = "read" /\ cl.ret = 0 /\ CurFork > 0
     /\ lay.stream.kind \in {STRM_COPY, STRM_RLE90})
        => sit_crc(cl.forks[CurFork].out) = lay.expected_crc

\* C7: one iteration from open(FIRST) through open(NEXT) to the end reports
\* exactly the non-empty forks of the entries, each once and in order.
C7_EnumerationComplete ==
    (FullPass /\ cl.done) => Enumerated = NonEmptyForks

\* an archive with an empty file and several entries has been enumerated
C7_Witness ==
    /\ FullPass /\ cl.done
    /\ Len(cl.forks) >= 3
    /\ Enumerated = NonEmptyForks
    /\ \E k \in 1..Len(cl.forks) : cl.forks[k].info.fork_type = MUNBOX_FORK_RESOURCE

\* open(NEXT) was called on an open, partly read fork of a full pass
SkippedFork ==
    /\ FullPass
    /\ cl.op = "open"
    /\ cl.skipped > 0
    /\ cl.skipped <= Len(Expected(input))

EventsOf(ev) == {k \in 1..Len(drv.log) : drv.log[k].ev = ev}

\* the bytes handed to write_data so far, in order
WrittenData ==
    Flatten([k \in 1..Len(drv.log) |->
                IF drv.log[k].ev = "write_data" THEN drv.log[k].bytes ELSE <<>>])

\* C2: the driver emits files only once no factory accepts the current layer,
\* and a run in which the SIT or CPT factory accepted has iterated that layer.
C2_StackThenIterate ==
    /\ drv.log # <<>> => drv.through
    /\ (drv.pc = "returned" /\ lay.kind \in {"sit", "cpt"}) => drv.iterated

\* C4: the source is never closed twice, it stays open while the driver
\* runs, and when the driver returns it has been closed exactly once, as has
\* the format layer that took it over.
C4_InputClosedExactlyOnce ==
    /\ src.closed <= 1
    /\ drv.pc # "returned" => src.closed = 0
    /\ drv.pc = "returned" => src.closed = 1
    /\ (drv.pc = "returned" /\ lay.kind # "none") => lay.closed = 1

\* the driver has returned after the BinHex factory recognised the source,
\* read into it and gave it back
C4_Witness ==
    /\ drv.pc = "returned"
    /\ src.closed = 1
    /\ lay.kind = "none" /\ drv.partway /\ input \in 21..24

\* C10: when no factory accepted the source and the driver returned 0, it
\* announced one file, wrote no resource fork, and the bytes passed to
\* write_data, concatenated, are the bytes of the source.
C10_PassThroughCopies ==
    (drv.pc = "returned" /\ drv.through /\ drv.ret = 0)
        => /\ Cardinality(EventsOf("new_file")) = 1
           /\ Cardinality(EventsOf("end_file")) = 1
           /\ EventsOf("write_resource_fork") = {}
           /\ Cardinality(EventsOf("write_data")) = (IF Data(input) = <<>> THEN 0 ELSE 1)
           /\ WrittenData = Data(input)

\* a source that a factory had read into was copied through in full
C10_Witness ==
    /\ drv.pc = "returned" /\ drv.through /\ drv.ret = 0
    /\ drv.partway
    /\ Len(Data(input)) > 14
    /\ WrittenData = Data(input)

\* C11: once a callback has returned non-zero munbox_process returns
\* MUNBOX_ABORT; when none has, it returns 0 or MUNBOX_ERROR, and not 0 when
\* the last open of a layer failed.
C11_AbortIsReported ==
    /\ (drv.pc \in {"returned", "crashed"} /\ drv.aborted)
           => (drv.pc = "returned" /\ drv.ret = MUNBOX_ABORT)
    /\ (drv.pc = "returned" /\ ~drv.aborted) => drv.ret \in {0, MUNBOX_ERROR}
    /\ (drv.pc = "returned" /\ ~drv.aborted /\ drv.rc < 0) => drv.ret = MUNBOX_ERROR

\* the handler factories in the order the driver is to try them
Registry == <<"sit", "sit5", "hqx", "bin", "cpt">>

\* C12: the factories are called in the order of the registry, each after
\* those before it declined, and an input is passed through only after all
\* five have been called.
C12_RegistryOrder ==
    /\ IsPrefix(drv.tried, Registry)
    /\ drv.through => drv.tried = Registry


\* the fork that the last open of the layer began
OpenedFork ==
    /\ cl.phase = "built" /\ cl.op = "open" /\ cl.ret = 1

\* the entry of the Compact Pro directory whose fork is open
CptCurEntry == lay.entries[lay.iter_index + 1]

\* C13: a fork that an archive layer has opened lies inside the archive: its
\* offset plus its compressed length, taken as unbounded integers, is at most
\* archive_size.
C13_ForkInsideArchive ==
    /\ (OpenedFork /\ lay.kind = "sit")
           => lay.stream.src + lay.stream.src_len <= lay.archive_size
    /\ (OpenedFork /\ lay.kind = "cpt")
           => /\ CptCurEntry.file_offset.hi = 0
              /\ CptCurEntry.rsrc_comp_len.hi = 0
              /\ CptCurEntry.data_comp_len.hi = 0
              /\ lay.iter_fork = 0 =>
                     CptCurEntry.file_offset.lo + CptCurEntry.rsrc_comp_len.lo
                         + CptCurEntry.data_comp_len.lo <= lay.archive_size
              /\ lay.iter_fork = 1 =>
                     CptCurEntry.file_offset.lo + CptCurEntry.rsrc_comp_len.lo
                         <= lay.archive_size

(***************************************************************************)
(* The match decoders: sit13_produce (sit13.c) and cpt_lzhs_next (cpt.c).  *)
(* The prefix-code readers are taken as given: a compressed stream is the  *)
(* sequence of values that tree_to_value / cpt_pfx_next and the bit        *)
(* readers return for it, one record per symbol.  A window is held as the  *)
(* bytes written to it so far; it is zero-filled when the decoder is set   *)
(* up and no stream of the model fills it once around.                     *)
(***************************************************************************)
\* symbols per compressed stream
MaxSyms == 3

SIT13_WINDOW == 65536
CPT_LZH_WINDOW == 8192

\* window[i & mask]
WindowAt(window, i, size) ==
    IF i % size < Len(window) THEN window[(i % size) + 1] ELSE 0

Sit13Lit(b) == [value |-> b, bits |-> 0, ov |-> 0, obits |-> 0]
Sit13Match(value, bits, ov, obits) == [value |-> value, bits |-> bits, ov |-> ov, obits |-> obits]

\* two literals; matches of length 3 at offset 1, length 4 at offset 4 and
\* length 65 at offset 2; a value above 319
Sit13Symbols ==
    {Sit13Lit(65), Sit13Lit(66), Sit13Match(256, 0, 0, 0), Sit13Match(257, 0, 2, 1),
     Sit13Match(318, 0, 1, 0), Sit13Match(320, 0, 0, 0)}

Sit13Init ==
    [kind |-> "sit13", window |-> <<>>, out_pos |-> 0, pending_match_len |-> 0,
     pending_match_src |-> 0, current_tree |-> "first", at |-> 0, overrun |-> FALSE,
     matches |-> 0, match_offset |-> 0, match_pos |-> 0]

\* sit13_produce; st.at counts the symbols taken from the stream, overrun is
\* set when next_bits reads past the end of the compressed bytes
RECURSIVE sit13_produce(_, _, _, _)
sit13_produce(st, syms, out_cap, out) ==
    IF Len(out) >= out_cap THEN [st |-> st, n |-> Len(out), out |-> out]
    ELSE IF st.pending_match_len > 0
    THEN LET b == WindowAt(st.window, st.pending_match_src, SIT13_WINDOW)
         IN  sit13_produce([st EXCEPT !.pending_match_src = @ + 1,
                                      !.window = Append(@, b),
                                      !.out_pos = @ + 1,
                                      !.pending_match_len = @ - 1,
                                      !.current_tree = IF st.pending_match_len = 1
                                                       THEN "second" ELSE @],
                           syms, out_cap, Append(out, b))
    ELSE IF st.at >= Len(syms)
    THEN [st |-> [st EXCEPT !.overrun = TRUE], n |-> Len(out), out |-> out]
    ELSE
        LET sym == syms[st.at + 1]
            next_value == sym.value
        IN  IF next_value < 256
            THEN sit13_produce([st EXCEPT !.at = @ + 1,
                                          !.window = Append(@, next_value),
                                          !.out_pos = @ + 1,
                                          !.current_tree = "first"],
                               syms, out_cap, Append(out, next_value))
            ELSE IF next_value > 319
            THEN [st |-> [st EXCEPT !.at = @ + 1], n |-> MUNBOX_ERROR, out |-> out]
            ELSE
                LET length == IF next_value < 318 THEN next_value - 253 ELSE sym.bits + 65
                    offset == IF sym.ov = 0 THEN 1 ELSE (2 ^ (sym.ov - 1)) + sym.obits + 1
                    src_index == st.out_pos - offset
                IN  sit13_produce([st EXCEPT !.at = @ + 1,
                                             !.pending_match_len = length,
                                             !.pending_match_src = src_index,
                                             !.matches = @ + 1,
                                             !.match_offset = offset,
                                             !.match_pos = st.out_pos],
                                  syms, out_cap, out)

CptLit(b) == [flag |-> 1, sym |-> b, lsym |-> 0, osym |-> 0, low |-> 0]
CptMatch(lsym, osym, low) == [flag |-> 0, sym |-> 0, lsym |-> lsym, osym |-> osym, low |-> low]

\* two literals; matches of length 2 at offset 1 and length 3 at offset 67;
\* a match of length 0; a code that cpt_pfx_next does not find
CptSymbols ==
    {CptLit(65), CptLit(66), CptMatch(2, 0, 1), CptMatch(3, 1, 3), CptMatch(0, 0, 1),
     CptMatch(-1, 0, 0)}

CptLzhInit ==
    [kind |-> "lzh", window |-> <<>>, pos |-> 0, have_pending |-> FALSE, pend_pos |-> 0,
     pend_len |-> 0, pend_buf |-> <<>>, at |-> 0,
     matches |-> 0, match_offset |-> 0, match_pos |-> 0]

\* cpt_lzhs_next: 1 and a byte, or 0.  The tables of the block are built and
\* no stream of the model reaches the end of a block.
cpt_lzhs_next(s, syms) ==
    IF s.have_pending /\ s.pend_pos < s.pend_len
    THEN [s |-> [s EXCEPT !.pend_pos = @ + 1,
                          !.window = Append(@, s.pend_buf[s.pend_pos + 1]),
                          !.pos = @ + 1,
                          !.have_pending = s.pend_pos + 1 # s.pend_len],
          rc |-> 1, byte |-> s.pend_buf[s.pend_pos + 1]]
    ELSE
        LET s0 == [s EXCEPT !.have_pending = FALSE]
        IN  IF s0.at >= Len(syms) THEN [s |-> s0, rc |-> 0, byte |-> 0]
            ELSE
                LET c == syms[s0.at + 1]
                    s1 == [s0 EXCEPT !.at = @ + 1]
                IN  IF c.flag = 1
                    THEN [s |-> [s1 EXCEPT !.window = Append(@, c.sym), !.pos = @ + 1],
                          rc |-> 1, byte |-> c.sym]
                    ELSE IF c.lsym < 0 \/ c.osym < 0 THEN [s |-> s1, rc |-> 0, byte |-> 0]
                    ELSE
                        LET off == (c.osym * 64) + c.low
                            mlen == c.lsym
                            start == s1.pos - off
                            first == WindowAt(s1.window, start, CPT_LZH_WINDOW)
                            win == Append(s1.window, first)
                        IN  IF mlen = 0 THEN [s |-> s1, rc |-> 0, byte |-> 0]
                            ELSE [s |-> [s1 EXCEPT
                                            !.window = win,
                                            !.pos = @ + 1,
                                            !.pend_len = IF mlen > 1 THEN mlen - 1 ELSE @,
                                            !.pend_pos = IF mlen > 1 THEN 0 ELSE @,
                                            !.pend_buf =
                                                IF mlen > 1
                                                THEN [i \in 1..(mlen - 1) |->
                                                         WindowAt(win, start + i, CPT_LZH_WINDOW)]
                                                ELSE @,
                                            !.have_pending = mlen > 1,
                                            !.matches = @ + 1,
                                            !.match_offset = off,
                                            !.match_pos = s1.pos],
                                  rc |-> 1, byte |-> first]

(***************************************************************************)
(* DecoderSpec: a caller sets up one of the two decoders over a compressed *)
(* stream and calls it until the stream is used up.  Here input is the     *)
(* stream itself, lay the decoder, and                                     *)
(*   cl.phase   "run"; "ended" once the decoder has returned 0 or an error *)
(*              or has read past the end of its compressed bytes           *)
(*   cl.out     the bytes delivered                                        *)
(*   cl.ret     the last return value                                      *)
(* lay.matches counts the matches decoded; lay.match_offset, lay.match_pos *)
(* are the offset of the last one and the output position it was decoded   *)
(* at.                                                                     *)
(***************************************************************************)
Streams(symbols) == UNION {[1..n -> symbols] : n \in 1..MaxSyms}

DecoderInit ==
    /\ \/ input \in Streams(Sit13Symbols) /\ lay = Sit13Init
       \/ input \in Streams(CptSymbols) /\ lay = CptLzhInit
    /\ src = NewSource("mem", -1)
    /\ cl = [phase |-> "run", out |-> <<>>, op |-> "none", ret |-> 0]
    /\ drv = NoDriver

DecoderSit13Produce ==
    /\ cl.phase = "run"
    /\ lay.kind = "sit13"
    /\ \E out_cap \in 1..MaxCnt :
          \E r \in {sit13_produce(lay, input, out_cap, <<>>)} :
              /\ lay' = r.st
              /\ cl' = [cl EXCEPT !.phase = IF r.n < 0 \/ r.st.overrun THEN "ended" ELSE @,
                                  !.out = @ \o r.out,
                                  !.op = "produce", !.ret = r.n]
    /\ UNCHANGED <<input, src, drv>>

DecoderCptNext ==
    /\ cl.phase = "run"
    /\ lay.kind = "lzh"
    /\ \E r \in {cpt_lzhs_next(lay, input)} :
          /\ lay' = r.s
          /\ cl' = [cl EXCEPT !.phase = IF r.rc <= 0 THEN "ended" ELSE @,
                              !.out = IF r.rc = 1 THEN Append(@, r.byte) ELSE @,
                              !.op = "next", !.ret = r.rc]
    /\ UNCHANGED <<input, src, drv>>

DecoderNext == DecoderSit13Produce \/ DecoderCptNext

DecoderSpec == DecoderInit /\ [][DecoderNext]_vars

\* C14: every match decoded by sit13_produce and by cpt_lzhs_next has an
\* offset no greater than the number of bytes produced when it was decoded.
C14_MatchInsideOutput ==
    lay.matches > 0 => lay.match_offset <= lay.match_pos

\* C15: a read on a fork of an archive decoder returns 0 only when the
\* decoder has produced the whole fork; compressed bytes that run out or do
\* not decode end the fork with an error.
C15_NoShortNormalEnd ==
    (cl.phase = "built" /\ cl.op = "read" /\ cl.ret = 0 /\ CurFork > 0)
        => /\ lay.kind = "sit" => lay.stream.out_rem = 0
           /\ lay.kind = "cpt" => lay.fork.out_remaining = 0

\* the stored CRC of the fork of this type does not match the fork's bytes
WrongCrc(i, type) ==
    \/ type = MUNBOX_FORK_DATA /\ Inputs[i] = HqxWrongDataCrc
    \/ type = MUNBOX_FORK_RESOURCE /\ Inputs[i] = HqxWrongRsrcCrc

\* C16: the BinHex layer ends no fork normally without having verified its
\* CRC: a read returns 0 after all bytes of a fork only if the stored CRC of
\* the fork matches, and open(NEXT) leaves the data fork without an error
\* only if the stored CRC of the data fork matches.
C16_BothCrcsVerified ==
    /\ (/\ FullPass /\ lay.kind = "hqx" /\ cl.op = "read" /\ cl.ret = 0 /\ CurFork > 0
        /\ Len(cl.forks[CurFork].out) = cl.forks[CurFork].info.length)
           => ~WrongCrc(input, cl.forks[CurFork].info.fork_type)
    /\ (/\ FullPass /\ lay.kind = "hqx" /\ cl.op = "open" /\ cl.ret >= 0
        /\ (cl.done \/ Len(cl.forks) > 1)
        /\ Len(cl.forks) > 0 /\ cl.forks[1].info.fork_type = MUNBOX_FORK_DATA)
           => ~WrongCrc(input, MUNBOX_FORK_DATA)

\* the first part of C16 alone
C16_ReadVerifies ==
    (/\ FullPass /\ lay.kind = "hqx" /\ cl.op = "read" /\ cl.ret = 0 /\ CurFork > 0
     /\ Len(cl.forks[CurFork].out) = cl.forks[CurFork].info.length)
        => ~WrongCrc(input, cl.forks[CurFork].info.fork_type)

(***************************************************************************)
(* RLE90 of BinHex as the format defines it, over the whole stream behind  *)
(* the 6-bit coding: r.out is the stream expanded so far, r.esc says that  *)
(* the last byte was the marker 0x90, r.err that a count of 1 or a run     *)
(* with nothing before it was met.                                         *)
(***************************************************************************)
Rle90Step(r, b) ==
    IF r.err THEN r
    ELSE IF r.esc
    THEN IF b = 0 THEN [out |-> Append(r.out, 144), esc |-> FALSE, err |-> FALSE]
         ELSE IF b = 1 \/ r.out = <<>> THEN [r EXCEPT !.err = TRUE]
         ELSE [out |-> r.out \o [k \in 1..(b - 1) |-> r.out[Len(r.out)]],
               esc |-> FALSE, err |-> FALSE]
    ELSE IF b = 144 THEN [r EXCEPT !.esc = TRUE]
    ELSE [r EXCEPT !.out = Append(@, b)]

RECURSIVE Rle90Range(_, _, _, _)
Rle90Range(raw, lo, hi, r) ==
    IF lo > hi THEN r
    ELSE IF lo = hi THEN Rle90Step(r, raw[lo])
    ELSE Bind(Rle90Range(raw, lo, (lo + hi) \div 2, r), LAMBDA h :
             Rle90Range(raw, ((lo + hi) \div 2) + 1, hi, h))

Rle90Expand(raw) ==
    Rle90Range(raw, 1, Len(raw), [out |-> <<>>, esc |-> FALSE, err |-> FALSE]).out

\* the BinHex inputs of the model that hold a header
HqxStreams == {i \in 1..Len(Inputs) : "raw" \in DOMAIN Inputs[i]}

\* the bytes of a fork in the expanded stream: the header is 22 bytes and the
\* name, the data fork follows it, the resource fork follows the data fork
\* and its CRC
RefFork(i, type) ==
    Bind(Rle90Expand(Inputs[i].raw), LAMBDA d :
        LET n == d[1]
            dlen == LOAD_BE32(d, n + 12)
            rlen == LOAD_BE32(d, n + 16)
            from == IF type = MUNBOX_FORK_DATA THEN n + 22 ELSE n + 22 + dlen + 2
            len == IF type = MUNBOX_FORK_DATA THEN dlen ELSE rlen
        IN  SubSeq(d, from + 1, Min(from + len, Len(d))))

RefForks == [i \in HqxStreams |-> [t \in {MUNBOX_FORK_DATA, MUNBOX_FORK_RESOURCE} |-> RefFork(i, t)]]

\* the stream has a data fork
HasDataFork(i) == RefForks[i][MUNBOX_FORK_DATA] # <<>>

\* C17: the bytes the BinHex layer delivers for a fork of a stream with a data
\* fork are the bytes of the fork in the RLE90 expansion of the stream, and a
\* fork ends normally only when all of them have been delivered.
C17_Rle90 ==
    (FullPass /\ lay.kind = "hqx" /\ HasDataFork(input))
        => \A k \in 1..Len(cl.forks) :
              /\ IsPrefix(cl.forks[k].out, RefForks[input][cl.forks[k].info.fork_type])
              /\ cl.forks[k].ended =>
                    cl.forks[k].out = RefForks[input][cl.forks[k].info.fork_type]

\* the input holds a MacBinary header block whose bytes 124..125 are not the
\* CRC of bytes 0..123
BadHeaderCrc(i) ==
    /\ Len(Data(i)) >= MB_BLOCK_SIZE
    /\ crc16_xmodem_update(0, SubSeq(Data(i), 1, 124)) # be16(Data(i), 124)

\* the checks of the header block other than the CRC: version, byte 74, name
\* length, fork lengths below 2^31, no secondary header
OtherHeaderChecks(i) ==
    /\ Data(i)[1] = 0
    /\ Data(i)[75] = 0
    /\ Data(i)[2] \in 1..63
    /\ Data(i)[84] < 128 /\ Data(i)[88] < 128
    /\ be16(Data(i), 120) = 0

BadCrcInputs == {i \in 1..Len(Inputs) : BadHeaderCrc(i)}

BadCrcOtherwiseValid == {i \in BadCrcInputs : OtherHeaderChecks(i)}

\* C18: given a header with a CRC that does not match, the BIN factory
\* declines when byte 82 is not 0 and accepts when byte 82 is 0 and the other
\* checks of the header pass.
C18_BadCrcNeedsByte82 ==
    (cl.by = "bin" /\ cl.phase \in {"built", "declined"} /\ input \in BadCrcInputs)
        => /\ Data(input)[83] # 0 => cl.phase = "declined"
           /\ (Data(input)[83] = 0 /\ input \in BadCrcOtherwiseValid)
                 => cl.phase = "built"

\* the factory has accepted a header with a wrong CRC and byte 82 = 0
C18_Witness ==
    /\ cl.by = "bin" /\ cl.phase = "built" /\ lay.kind = "bin"
    /\ input \in BadCrcInputs
    /\ Data(input)[83] = 0

\* the bytes of a fork in a MacBinary file: the data fork follows the header
\* and the padded secondary header, the resource fork follows the data fork
\* padded to a block; a file that ends early holds the bytes it has
BinFork(i, type) ==
    LET d == Data(i)
        dlen == be32(d, 83)
        rlen == be32(d, 87)
        sec_len == be16(d, 120)
        forks == MB_BLOCK_SIZE + sec_len + BlockPad(sec_len)
        from == IF type = MUNBOX_FORK_DATA THEN forks ELSE forks + dlen + BlockPad(dlen)
        len == IF type = MUNBOX_FORK_DATA THEN dlen ELSE rlen
    IN  [length |-> len, bytes |-> SubSeq(d, from + 1, Min(from + len, Len(d)))]

\* the inputs that hold a whole MacBinary header block that passes the checks
BinStreams ==
    {i \in 1..Len(Inputs) :
        Len(Data(i)) >= MB_BLOCK_SIZE /\ bin_header_valid(SubSeq(Data(i), 1, MB_BLOCK_SIZE))}

BinForkTable == [i \in BinStreams |-> [t \in {MUNBOX_FORK_DATA, MUNBOX_FORK_RESOURCE} |-> BinFork(i, t)]]

\* C19: in every pass that open(FIRST) begins on the MacBinary layer, the
\* first or a later one, the forks reported are the data fork then the
\* resource fork with the lengths of the header, and the bytes read are the
\* bytes of the fork in the file, the resource fork taken after the padded
\* data fork.
C19_BinRewind ==
    (cl.phase = "built" /\ lay.kind = "bin" /\ cl.whole)
        => /\ IsPrefix(Enumerated, NonEmptyForks)
           /\ \A k \in 1..Len(cl.forks) :
                 Bind(BinForkTable[input][cl.forks[k].info.fork_type], LAMBDA f :
                     /\ cl.forks[k].info.length = f.length
                     /\ IsPrefix(cl.forks[k].out, f.bytes)
                     /\ cl.forks[k].ended => cl.forks[k].out = f.bytes)

\* the MacBinary files whose data fork does not look like a StuffIt archive
\* and whose resource fork does
SitInRsrcOnly ==
    {i \in BinStreams :
        /\ ~looks_like_sit(BinForkTable[i][MUNBOX_FORK_DATA].bytes)
        /\ looks_like_sit(BinForkTable[i][MUNBOX_FORK_RESOURCE].bytes)}

\* C20: when only the resource fork of a MacBinary file looks like a StuffIt
\* archive, the first fork that munbox_process gets from open(FIRST) on the
\* BIN layer is the resource fork and the bytes it reads from it are the bytes
\* of the resource fork.
C20_RsrcPreferred ==
    (/\ lay.kind = "bin" /\ input \in SitInRsrcOnly
     /\ drv.pc \in {"iter_file", "iter_read", "iter_write"}
     /\ drv.rc = 1 /\ Len(drv.log) <= 1)
        => /\ drv.info.fork_type = MUNBOX_FORK_RESOURCE
           /\ IsPrefix(drv.buf, BinForkTable[input][MUNBOX_FORK_RESOURCE].bytes)

\* C21: no fork of a Compact Pro entry whose flags have the encrypted bit set
\* is opened, and no read on the layer delivers bytes while such an entry is
\* the current one.
C21_EncryptedIsError ==
    (/\ cl.phase = "built" /\ lay.kind = "cpt" /\ lay.opened
     /\ lay.iter_index < Len(lay.entries)
     /\ BitAnd(CptCurEntry.flags, CPT_FLAG_ENCRYPTED) # 0)
        => /\ cl.op = "open" => cl.ret < 0
           /\ cl.op = "read" => cl.ret < 0

\* the inputs whose first entry has an empty data fork and a resource fork
\* that is not empty
RsrcFirst ==
    {i \in 1..Len(Inputs) :
        Expected(i) # <<>> /\ Expected(i)[1].fork_type = MUNBOX_FORK_RESOURCE}

\* the archives with no entries
ZeroEntryArchives == {i \in 1..Len(Inputs) : Inputs[i] \in {SitInputs[8], CptInputs[5]}}

\* a step that is a call of open(FIRST) on the layer: the first call on the
\* single-pass BinHex layer, any call on the others
OpenFirstStep ==
    /\ cl'.pass = cl.pass + 1
    /\ lay.kind = "hqx" => (cl.pass = 0 /\ cl.op = "build")

\* C22: open(FIRST) on an input whose first entry has an empty data fork and
\* a resource fork returns 1 with fork type resource and the length of the
\* resource fork, on all four layers; open(FIRST) on an archive with no
\* entries returns 0.
C22_EmptyDataYieldsRsrc ==
    [][/\ (OpenFirstStep /\ input \in RsrcFirst)
            => /\ cl'.ret = 1
               /\ Len(cl'.forks) = 1
               /\ cl'.forks[1].info.fork_type = MUNBOX_FORK_RESOURCE
               /\ cl'.forks[1].info.length = Expected(input)[1].length
       /\ (OpenFirstStep /\ input \in ZeroEntryArchives) => cl'.ret = 0]_vars

\* open(FIRST) has returned the resource fork as the first fork of the pass
C22_Witness ==
    /\ cl.phase = "built" /\ cl.op = "open" /\ cl.ret = 1 /\ cl.pass > 0
    /\ input \in RsrcFirst
    /\ Len(cl.forks) = 1 /\ cl.forks[1].info.fork_type = MUNBOX_FORK_RESOURCE

(***************************************************************************)
(* The header loop of sit_build_index_classic, one header at a time.  Each *)
(* step places one 112-byte header at the cursor and runs one iteration of *)
(* the loop on it.  lay is the state of the loop; cl keeps what the        *)
(* archive says:                                                           *)
(*   cl.open   the names of the folders begun and not yet ended            *)
(*   cl.n      the headers read so far                                     *)
(*   cl.phase  "crashed" when the process died of a write beyond           *)
(*             folder_name                                                 *)
(***************************************************************************)
MaxHeaders == 13

\* a folder-start header with the given name
SitFolderHeader(name) == <<32, 32, Len(name)>> \o name \o Zeros(109 - Len(name))

\* a name of one byte, and a name that fills folder_name and leaves no room
\* for its terminator; a run takes the long name at most once, since after it
\* the run is undefined already
FolderNames == {<<100>>, [k \in 1..FOLDER_NAME_SIZE |-> 100]}

IndexInit ==
    /\ input = 0
    /\ src = NewSource("mem", -1)
    /\ lay = [kind |-> "sit_index", entries |-> <<>>, folders |-> <<>>, current |-> 22,
              err |-> FALSE, smashed |-> FALSE]
    /\ cl = [phase |-> "run", open |-> <<>>, n |-> 0, op |-> "none"]
    /\ drv = NoDriver

\* one iteration of the loop on the header h; only the last entry is kept
IndexStep(h) ==
    Bind(Zeros(lay.current) \o h, LAMBDA data :
    Bind(sit_index_step(data, Len(data), [lay EXCEPT !.entries = <<>>]), LAMBDA st :
        IF st.entries = <<>> THEN [st EXCEPT !.entries = lay.entries] ELSE st))

IndexFolderStart ==
    /\ cl.phase = "run" /\ cl.n < MaxHeaders
    /\ \E name \in (IF lay.smashed THEN {<<100>>} ELSE FolderNames), dies \in BOOLEAN :
          \E st \in {IndexStep(SitFolderHeader(name))} :
              /\ dies => st.smashed
              /\ lay' = st
              /\ cl' = [cl EXCEPT !.phase = IF dies THEN "crashed" ELSE @,
                                  !.open = Append(@, name), !.n = @ + 1, !.op = "start"]
    /\ UNCHANGED <<input, src, drv>>

IndexFolderEnd ==
    /\ cl.phase = "run" /\ cl.n < MaxHeaders
    /\ lay' = IndexStep(SitEntryBytes(SitMarker(33, <<>>)))
    /\ cl' = [cl EXCEPT !.open = IF @ = <<>> THEN @ ELSE SubSeq(@, 1, Len(@) - 1),
                        !.n = @ + 1, !.op = "end"]
    /\ UNCHANGED <<input, src, drv>>

IndexFile ==
    /\ cl.phase = "run" /\ cl.n < MaxHeaders
    /\ lay' = IndexStep(SitEntryBytes(SitFile(<<97>>, 0, <<>>, <<>>, 0, <<>>, <<>>)))
    /\ cl' = [cl EXCEPT !.n = @ + 1, !.op = "file"]
    /\ UNCHANGED <<input, src, drv>>

IndexNext == IndexFolderStart \/ IndexFolderEnd \/ IndexFile

IndexSpec == IndexInit /\ [][IndexNext]_vars

\* C23: after any sequence of folder-start, folder-end and file headers the
\* folder stack holds at most 10 names, no folder name was written beyond
\* its buffer, and the path of a file is the names of the folders that are
\* open in the archive, joined with '/', then the file's name.
C23_FolderStack ==
    /\ Len(lay.folders) \in 0..FOLDER_STACK_DEPTH
    /\ ~lay.smashed
    /\ cl.op = "file" => lay.entries[1].path = JoinFolders(cl.open) \o <<97>>

\* the three parts of C23, one at a time
C23_DepthInRange == Len(lay.folders) \in 0..FOLDER_STACK_DEPTH

C23_NameInBuffer == ~lay.smashed

C23_Matched ==
    (cl.op = "file" /\ ~lay.smashed)
        => lay.entries[1].path = JoinFolders(cl.open) \o <<97>>

\* the expansion of a Compact Pro run-length stream c from index i on, with
\* the byte emitted last in saved: 0x81 0x82 n repeats saved n - 1 more
\* times, 0x81 0x82 0 stands for 0x81 0x82, 0x81 0x81 for one 0x81 with the
\* second 0x81 read again, 0x81 X for 0x81 X
RECURSIVE CptRleExpand(_, _, _, _)
CptRleExpand(c, i, saved, out) ==
    IF i > Len(c) THEN out
    ELSE IF c[i] # 129 THEN CptRleExpand(c, i + 1, c[i], Append(out, c[i]))
    ELSE IF i + 1 > Len(c) THEN out
    ELSE IF c[i + 1] = 130
    THEN IF i + 2 > Len(c) THEN out
         ELSE IF c[i + 2] # 0
         THEN CptRleExpand(c, i + 3, saved, out \o [k \in 1..(c[i + 2] - 1) |-> saved])
         ELSE CptRleExpand(c, i + 3, 130, out \o <<129, 130>>)
    ELSE IF c[i + 1] = 129 THEN CptRleExpand(c, i + 1, 129, Append(out, 129))
    ELSE CptRleExpand(c, i + 2, c[i + 1], out \o <<129, c[i + 1]>>)

\* the bytes of the fork that is open on the Compact Pro layer: the expansion
\* of its stored bytes, cut at its length
CptRefFork ==
    Bind(CptCurEntry, LAMBDA e :
    Bind(e.file_offset.lo + (IF lay.iter_fork = 0 THEN e.rsrc_comp_len.lo ELSE 0), LAMBDA off :
    Bind(IF lay.iter_fork = 0 THEN e.data_comp_len.lo ELSE e.rsrc_comp_len.lo, LAMBDA len :
    Bind(CptRleExpand(SubSeq(Data(input), off + 1, off + len), 1, 0, <<>>), LAMBDA x :
        SubSeq(x, 1, Min(Len(x), cl.forks[Len(cl.forks)].info.length))))))

\* C24: the bytes read from a run-length coded Compact Pro fork, in reads of
\* any sizes, are the expansion of its stored bytes in which 0x81 0x82 n
\* repeats the byte emitted last n - 1 more times for every n from 1 to 255,
\* and the fork ends normally with all of them when the expansion has them.
C24_CptRle ==
    (/\ cl.phase = "built" /\ lay.kind = "cpt" /\ cl.whole /\ ~cl.done
     /\ Len(cl.forks) > 0 /\ lay.iter_index < Len(lay.entries)
     /\ CptCurEntry.file_offset.hi = 0)
        => Bind(cl.forks[Len(cl.forks)], LAMBDA f :
               /\ IsPrefix(f.out, CptRefFork)
               /\ (f.ended /\ Len(CptRefFork) = f.info.length) => f.out = CptRefFork)

\* C25: every read on a layer comes back: no read call loops for ever without
\* taking input or giving output.
C25_ReadTerminates == cl.phase # "hung"

\* the new_file and end_file events of the callback log, in order
FileEvents == SelectSeq(drv.log, LAMBDA e : e.ev \in {"new_file", "end_file"})

\* the last new_file call returned non-zero: it is the last event of the log
\* and left no file open
LastNewFileFailed ==
    /\ drv.log # <<>>
    /\ drv.log[Len(drv.log)].ev = "new_file"
    /\ ~drv.user

\* C26: when munbox_process has returned, every new_file call that returned 0
\* is followed by an end_file call before the next new_file call, and every
\* end_file call follows a new_file call with no other end_file between.
C26_EndFileFollows ==
    drv.pc = "returned"
        => \A j \in 1..Len(FileEvents) :
              /\ (FileEvents[j].ev = "new_file"
                    /\ ~(j = Len(FileEvents) /\ LastNewFileFailed))
                     => (j < Len(FileEvents) /\ FileEvents[j + 1].ev = "end_file")
              /\ FileEvents[j].ev = "end_file"
                     => (j > 1 /\ FileEvents[j - 1].ev = "new_file")

\* C27: once a callback has returned non-zero the driver is on its way out:
\* it is not at a point of the loop from which it opens the next fork, reads,
\* or calls new_file or a write callback.
C27_StopsAfterAbort ==
    drv.aborted => drv.pc \in {"iter_finish", "returned", "crashed"}

\* C28: no fork buffer is freed that is not allocated, none is freed twice,
\* and when munbox_process has returned every buffer it allocated has been
\* freed; the source stays open while the driver runs and has been closed
\* once when it returns, as has the format layer built on it.
C28_ReleasedOnce ==
    /\ drv.frees <= drv.allocs
    /\ drv.pc = "returned" => drv.frees = drv.allocs
    /\ src.closed <= 1
    /\ drv.pc \notin {"returned", "crashed"} => src.closed = 0
    /\ drv.pc = "returned" => src.closed = 1
    /\ (drv.pc = "returned" /\ lay.kind # "none") => lay.closed = 1

\* the parts of C28 about the buffer alone and about the layers alone
C28_BufferFreedOnce ==
    /\ drv.frees <= drv.allocs
    /\ drv.pc = "returned" => drv.frees = drv.allocs

C28_LayersClosedOnce ==
    /\ src.closed <= 1
    /\ drv.pc \notin {"returned", "crashed"} => src.closed = 0
    /\ drv.pc = "returned" => src.closed = 1
    /\ (drv.pc = "returned" /\ lay.kind # "none") => lay.closed = 1

(***************************************************************************)
(* StuffIt 5 entry enumeration (sit5_read_next_entry).  The state is the   *)
(* cursor, the budget of entries and the depth of the directory stack;     *)
(* the paths kept in the stack are left out.  One activation of the        *)
(* function is one step: where the function calls itself the step ends     *)
(* with rc = 2 and the next step is the callee.                            *)
(***************************************************************************)
SIT5_DIR_STACK_DEPTH == 32

SIT5_NAMEBUF_MAX == 255

MaxSit5Entries == 5

\* tmp after memcpy(tmp, header1, header1_len) and tmp[32] = tmp[33] = 0,
\* as far as tmp reaches
Sit5Tmp(data, offs, header1_len) ==
    [k \in 1..header1_len |-> IF k \in {33, 34} THEN 0 ELSE At(data, offs + k - 1)]

\* the part of sit5_read_next_entry after the name has been copied
sit5_entry_body(data, size, st, offs, header_end) ==
    IF header_end + 32 > size THEN [st EXCEPT !.rc = -1]
    ELSE
    Bind(LOAD_BE16(data, header_end) % 2 = 1, LAMBDA hasresource :
    Bind(header_end + 14 + 22, LAMBDA second_block :
    IF hasresource /\ second_block + 14 > size THEN [st EXCEPT !.rc = -1]
    ELSE
    Bind(IF hasresource THEN second_block + 14 + At(data, second_block + 13)
         ELSE second_block, LAMBDA datastart :
    Bind(LOAD_BE32_U32(data, offs + 34), LAMBDA datalength :
    Bind(At(data, offs + 9), LAMBDA flags :
    IF BitAnd(flags, 64) # 0
    THEN IF datalength = U32(65535, 65535)
         THEN [st EXCEPT !.entries_remaining = @ + 1, !.current_cursor = header_end,
                         !.rc = 2]
         ELSE [st EXCEPT !.dir_stack_depth =
                             IF @ < SIT5_DIR_STACK_DEPTH THEN @ + 1 ELSE @,
                         !.entries_remaining = @ + LOAD_BE16(data, offs + 46),
                         !.current_cursor = datastart, !.rc = 2]
    ELSE IF datalength = U32(65535, 65535)
    THEN [st EXCEPT !.current_cursor = header_end, !.rc = 2]
    ELSE IF BitAnd(flags, 32) # 0 /\ datalength # U32(0, 0) /\ At(data, offs + 47) # 0
    THEN [st EXCEPT !.rc = -1]
    ELSE
    Bind(datastart + (IF hasresource THEN LOAD_BE32(data, second_block + 4) ELSE 0),
         LAMBDA comp_data :
    Bind(LOAD_BE32(data, offs + 38), LAMBDA datacomplen :
    IF comp_data + datacomplen > size THEN [st EXCEPT !.rc = -1]
    ELSE [st EXCEPT !.current_cursor = comp_data + datacomplen,
                    !.entries_remaining = @ - 1, !.rc = 1])))))))

\* one activation of sit5_read_next_entry on the archive data; smashed
\* records a write outside tmp, overread a read of the name outside the
\* archive
sit5_read_next_entry(data, size, st) ==
    IF st.entries_remaining = 0 \/ st.current_cursor = 0 \/ st.current_cursor >= size
    THEN [st EXCEPT !.rc = 0]
    ELSE
    Bind(st.current_cursor, LAMBDA offs :
    IF offs + 48 > size THEN [st EXCEPT !.rc = -1]
    ELSE IF LOAD_BE32_U32(data, offs) # U32(42405, 42405) THEN [st EXCEPT !.rc = -1]
    ELSE IF At(data, offs + 4) # 1 THEN [st EXCEPT !.rc = -1]
    ELSE
    Bind(LOAD_BE16(data, offs + 6), LAMBDA header1_len :
    IF offs + header1_len > size THEN [st EXCEPT !.rc = -1]
    ELSE
    Bind([st EXCEPT !.smashed = @ \/ header1_len < 34], LAMBDA s1 :
    IF sit_crc(Sit5Tmp(data, offs, header1_len)) # LOAD_BE16(data, offs + 32)
    THEN [s1 EXCEPT !.rc = -1]
    ELSE
    Bind(Min(LOAD_BE16(data, offs + 30), SIT5_NAMEBUF_MAX), LAMBDA cpylen :
        sit5_entry_body(data, size,
                        [s1 EXCEPT !.overread = @ \/ offs + 48 + cpylen > size],
                        offs, offs + header1_len)))))

\* header1 without its CRC, then with it; the CRC covers header1_len bytes
Sit5Header1Raw(header1_len, flags, namelen, datalength, numfiles) ==
    <<165, 165, 165, 165, 1, 0>> \o BE16(header1_len) \o <<0, flags>> \o Zeros(16)
        \o Zeros(4) \o BE16(namelen) \o <<0, 0>> \o BE16(datalength.hi)
        \o BE16(datalength.lo) \o Zeros(4) \o <<0, 0, 0, 0>> \o BE16(numfiles)

\* an entry: header1 and a header2 of 36 bytes without a resource fork
Sit5Entry(header1_len, flags, namelen, datalength, numfiles) ==
    Bind(Sit5Header1Raw(header1_len, flags, namelen, datalength, numfiles), LAMBDA raw :
    Bind(sit_crc(SubSeq(raw, 1, header1_len)), LAMBDA crc :
        [k \in 1..48 |-> IF k = 33 THEN crc \div 256
                         ELSE IF k = 34 THEN crc % 256 ELSE raw[k]] \o Zeros(36)))

\* an empty file, a folder of one file, a phantom folder, a phantom file,
\* a phantom file whose header1 has length 0, a file whose name is said
\* to be 255 bytes long, and bytes that are no entry
Sit5Headers ==
    [file    |-> Sit5Entry(48, 0, 0, U32(0, 0), 0),
     folder  |-> Sit5Entry(48, 64, 0, U32(0, 0), 1),
     phantom |-> Sit5Entry(48, 64, 0, U32(65535, 65535), 0),
     marker  |-> Sit5Entry(48, 0, 0, U32(65535, 65535), 0),
     empty   |-> Sit5Entry(0, 0, 0, U32(65535, 65535), 0),
     named   |-> Sit5Entry(48, 0, 255, U32(0, 0), 0),
     junk    |-> Zeros(84)]

\* open(FIRST) has set the cursor and the budget from the archive header; a
\* run starts there, or after d nested folders of one file each, which
\* leaves the directory stack one short of full
Sit5Init ==
    /\ input = 0
    /\ src = NewSource("mem", -1)
    /\ \E n \in 1..2, d \in {0, SIT5_DIR_STACK_DEPTH - 1} :
          lay = [kind |-> "sit5", current_cursor |-> 100 + (84 * d),
                 entries_remaining |-> n + d, dir_stack_depth |-> d,
                 smashed |-> FALSE, overread |-> FALSE, rc |-> 2]
    /\ cl = [phase |-> "run", n |-> 0, op |-> "none"]
    /\ drv = NoDriver

\* one activation on an archive that holds the entry h at the cursor and
\* ends after it; after a write outside tmp or a read outside the archive
\* the run is undefined and is not followed further
Sit5Step ==
    /\ cl.phase = "run" /\ cl.n < MaxSit5Entries
    /\ \E k \in DOMAIN Sit5Headers, dies \in BOOLEAN :
          \E data \in {Zeros(lay.current_cursor) \o Sit5Headers[k]} :
          \E st \in {sit5_read_next_entry(data, Len(data), lay)} :
              /\ dies => (st.smashed \/ st.overread)
              /\ lay' = st
              /\ cl' = [phase |-> IF dies THEN "crashed"
                                  ELSE IF st.smashed \/ st.overread THEN "undefined"
                                  ELSE IF st.rc = 0 THEN "end"
                                  ELSE IF st.rc = -1 THEN "error" ELSE "run",
                        n |-> cl.n + 1, op |-> k]
    /\ UNCHANGED <<input, src, drv>>

\* the archive ends at the cursor
Sit5AtEnd ==
    /\ cl.phase = "run" /\ cl.n < MaxSit5Entries
    /\ lay' = sit5_read_next_entry(Zeros(lay.current_cursor), lay.current_cursor, lay)
    /\ cl' = [phase |-> "end", n |-> cl.n + 1, op |-> "none"]
    /\ UNCHANGED <<input, src, drv>>

Sit5Next == Sit5Step \/ Sit5AtEnd

Sit5Spec == Sit5Init /\ [][Sit5Next]_vars

\* C29: every activation of sit5_read_next_entry ends the enumeration,
\* strictly advances the cursor or reduces the budget of entries, writes
\* and reads inside its buffers, and leaves the depth of the directory
\* stack within 0..32.
C29_Sit5Enumeration ==
    [][/\ lay'.rc \in {0, -1} \/ lay'.current_cursor > lay.current_cursor
                              \/ lay'.entries_remaining < lay.entries_remaining
       /\ ~lay'.smashed /\ ~lay'.overread
       /\ lay'.dir_stack_depth \in 0..SIT5_DIR_STACK_DEPTH]_vars

\* the parts of C29, one at a time
C29_Progress ==
    [][\/ lay'.rc \in {0, -1} \/ lay'.current_cursor > lay.current_cursor
       \/ lay'.entries_remaining < lay.entries_remaining]_vars

C29_DepthInRange == lay.dir_stack_depth \in 0..SIT5_DIR_STACK_DEPTH

C29_InBuffers == ~lay.smashed /\ ~lay.overread

C29_NameInArchive == ~lay.overread

\* the bytes the open fork delivers from here on when every read asks for
\* cnt bytes, and how the reads stop: read returned 0 ("eof"), read returned
\* an error, read did not return ("hung"), or the fork went on for more
\* reads than its length has bytes ("more")
RECURSIVE ReadToEnd(_, _, _, _, _, _)
ReadToEnd(l, s, data, cnt, out, fuel) ==
    IF fuel = 0 THEN [out |-> out, end |-> "more"]
    ELSE Bind(layer_read(l, s, data, cnt), LAMBDA r :
        IF r.hang THEN [out |-> out, end |-> "hung"]
        ELSE IF r.n < 0 THEN [out |-> out, end |-> "error"]
        ELSE IF r.n = 0 THEN [out |-> out, end |-> "eof"]
        ELSE ReadToEnd(r.l, r.s, data, cnt, out \o r.bytes, fuel - 1))

RestOfFork ==
    [cnt \in 1..MaxCnt |->
        ReadToEnd(lay, src, Data(input), cnt, <<>>, cl.forks[CurFork].info.length + 2)]

====
